---- MODULE Spec2Model ----
\* Verification model of the Media-bias ingestion core:
\*   - the deduplicating article store (services/article_storage_service.py
\*     over the MongoDB collection configured in config/database.py);
\*   - the job scheduler (services/scheduler_service.py).
\* Each subsystem has its own specification over the shared variable list;
\* the variables of the other subsystem stay unchanged.
EXTENDS Integers, Sequences, FiniteSets, TLC

\* ------------------------------------------------------------------------
\* Bounds of the model (not program constants)
\* ------------------------------------------------------------------------
MaxProcs == 2
MaxCalls == 3
MaxBatch == 3
MaxBatchCallers == 1
MaxTicks == 1
MaxDays == 2
MaxOps == 2
MaxRuns == 2
MaxMinutes == 3
MaxStarts == 2
MaxRestarts == 1
MaxScraped == 2
MaxScrapers == 2
MaxScrapes == 4
MaxUrls == 2
MaxPending == 2
MaxArticles == 3
MaxRunners == 2
MaxDispatches == 3
MaxAlerts == 3
MaxSeconds == 2

\* ------------------------------------------------------------------------
\* Program constants
\* ------------------------------------------------------------------------
\* _is_recently_inserted: "time_diff.total_seconds() < 60"
RecentSeconds == 60
\* timedelta(days=retention_days), in seconds
SecondsPerDay == 86400

\* ------------------------------------------------------------------------
\* Article store
\* ------------------------------------------------------------------------
VARIABLES
    articles_collection,  \* the documents of the MongoDB collection "articles"
    next_oid,             \* the next ObjectId the driver generates (never reused)
    now,                  \* wall clock of the store host, in seconds
    calls,                \* per caller thread: the store call it is executing
    ncalls                \* number of store calls started so far

storeVars == <<articles_collection, next_oid, now, calls, ncalls>>

\* The store without the clock, which the scheduler shares.
storeData == <<articles_collection, next_oid, calls, ncalls>>

VARIABLES
    jobs,          \* self.jobs: job_id -> ScheduledJob
    jobs_entries,  \* the entry table of the self.jobs dict, in insertion order
    running,       \* self.running
    loop,          \* the scheduler thread: its place in _scheduler_loop, its locals
    execs,         \* the job threads: per job and place in _execute_job, how many
    orphans,       \* job threads whose job object self.jobs no longer holds
    api,           \* the management call in progress
    config_file,   \* the jobs saved in the scheduler's config file
    retries,       \* per job: five-minute retries scheduled in a row
    nops,          \* number of management calls so far
    nruns          \* number of job threads started so far

schedVars ==
    <<jobs, jobs_entries, running, loop, execs, orphans, api, config_file,
      retries, nops, nruns>>

VARIABLES
    stop_event,    \* self.stop_event: whether the Event is set
    stale,         \* scheduler threads of earlier start() calls that still live
    join_until,    \* stop(): when scheduler_thread.join(timeout=10) gives up
    nstarts,       \* number of start() calls so far
    nrestarts      \* number of process restarts so far

lifeVars == <<stop_event, stale, join_until, nstarts, nrestarts>>

VARIABLES
    store_available,  \* whether the MongoDB server answers
    job_result        \* what the job function that returned last returned

jobsEnv == <<store_available, job_result>>

VARIABLES
    scraper_stats,    \* ScraperManager.scraper_stats: source -> its statistics
    scrapes,          \* per calling thread: its scrape_single_source call
    scrape_all,       \* the scrape_all_sources call
    nscrapes,         \* number of scrape calls so far
    failed_calls,     \* per source: failed calls recorded since the last reset
    succeeded_since   \* per source: whether a call succeeded since the last reset

managerVars ==
    <<scraper_stats, scrapes, scrape_all, nscrapes, failed_calls,
      succeeded_since>>

VARIABLES
    scrape            \* the scrape_articles call of one scraper

scraperVars == <<scrape>>

VARIABLES
    fetches           \* per thread inside a scraper: where its scrape_articles is

adapterVars == <<fetches>>

VARIABLES
    analysis          \* the analyze_pending_articles call

analysisVars == <<analysis>>

VARIABLES
    scrape_run        \* the orchestrator's scrape_all_sources call

runVars == <<scrape_run>>

VARIABLES
    bias_score        \* the last analyze_article_bias call: its text and result

analyzerVars == <<bias_score>>

VARIABLES
    differences,      \* the last calculate_bias_differences call
    story,            \* the last _generate_story_id call
    hash_seed         \* the seed of str hashing of the running process

comparatorVars == <<differences, story, hash_seed>>

VARIABLES
    job_counters,     \* the run counters of one ScheduledJob object
    runners,          \* the job threads of that job: their place in _execute_job
    ndispatched       \* number of job threads started for the job so far

countersVars == <<job_counters, runners, ndispatched>>

VARIABLES
    empty_scrapes     \* per source, the scrape_single_source calls in a row
                      \* whose adapter produced no article

watchVars == <<empty_scrapes>>

VARIABLES
    alerts,           \* MonitoringService.alerts: the list of Alert objects
    alert_clock,      \* datetime.now() of the monitor, in seconds
    nalerts,          \* number of create_alert calls so far
    resolve_result    \* what the last resolve_alert call was given and did

alertVars == <<alerts, alert_clock, nalerts, resolve_result>>

\* The variables of the services around the scrapers, and for each service
\* the variables of the other ones.
otherVars == <<countersVars, watchVars, alertVars>>
serviceVars ==
    <<adapterVars, analysisVars, runVars, analyzerVars, comparatorVars,
      otherVars>>
besideAdapter ==
    <<analysisVars, runVars, analyzerVars, comparatorVars, otherVars>>
besideAnalysis ==
    <<adapterVars, runVars, analyzerVars, comparatorVars, otherVars>>
besideRun ==
    <<adapterVars, analysisVars, analyzerVars, comparatorVars, otherVars>>
besideAnalyzer ==
    <<adapterVars, analysisVars, runVars, comparatorVars, otherVars>>
besideComparator ==
    <<adapterVars, analysisVars, runVars, analyzerVars, otherVars>>
besideCounters ==
    <<adapterVars, analysisVars, runVars, analyzerVars, comparatorVars,
      watchVars, alertVars>>
besideWatch ==
    <<adapterVars, analysisVars, runVars, analyzerVars, comparatorVars,
      countersVars, alertVars>>
besideAlerts ==
    <<adapterVars, analysisVars, runVars, analyzerVars, comparatorVars,
      countersVars, watchVars>>

scrapingVars == <<jobsEnv, managerVars, scraperVars, serviceVars>>

Procs == 1 .. MaxProcs

\* Article keys a scraper can produce.  Two urls and two content hashes give
\* the syndication case (different url, same content) and the edited case
\* (same url, different content).
Urls == {"u1", "u2"}
Hashes == {"h1", "h2"}
BiasValues == {"b1"}
RetentionChoices == {1, 2}

NoId == 0
NoBias == "none"

\* An Article value as handed to store_article (the fields the store logic
\* reads; title/content/source are represented by their content_hash).
Article(u, h, t) == [url |-> u, content_hash |-> h, scraped_at |-> t]

NoArticle == Article("", "", 0)

\* Article.to_dict plus the _id the driver assigns on insert_one; topics are
\* extracted by store_article when the article carries none.
ToDict(a, oid) ==
    [id |-> oid, url |-> a.url, content_hash |-> a.content_hash,
     scraped_at |-> a.scraped_at, bias_scores |-> NoBias, topics |-> "extracted"]

\* find_one with the url filter left out: any document matches.
ExistingByUrlAny(a) == articles_collection

\* find_one({'url': article.url})
ExistingByUrl(a) == {d \in articles_collection : d.url = a.url}

\* find_one({'content_hash': article.content_hash})
ExistingByHash(a) == {d \in articles_collection : d.content_hash = a.content_hash}

\* The handler's lookup with the content_hash alternative left out.
ExistingByUrlOnly(a) == {d \in articles_collection : d.url = a.url}

\* find_one({'$or': [{'url': ...}, {'content_hash': ...}]}): the server returns
\* any one matching document, no sort is given.
ExistingByEither(a) ==
    {d \in articles_collection : d.url = a.url \/ d.content_hash = a.content_hash}

\* The unique index on url only (the index on content_hash left non-unique).
DuplicateKeyUrlOnly(a) == \E d \in articles_collection : d.url = a.url

\* The unique indexes on url and on content_hash: insert_one raises
\* DuplicateKeyError when either key is already present.
DuplicateKey(a) ==
    \E d \in articles_collection : d.url = a.url \/ d.content_hash = a.content_hash

\* _is_recently_inserted(article_id)
IsRecentlyInserted(oid) ==
    \E d \in articles_collection : d.id = oid /\ now - d.scraped_at < RecentSeconds

\* A caller thread with no store call in progress.  Of a call in progress:
\*   pc      position in store_article / store_articles_batch
\*   kind    "single" (store_article) or "batch" (store_articles_batch)
\*   art     the article of the store_article in progress
\*   res     the id store_article returned (NoId for None)
\*   path    the return statement store_article left through
\*   stored, duplicates, errors   the results of store_articles_batch
\*           (the lists stored_ids and duplicate_ids are as long as the counts)
\*   newly   how many of the batch's puts inserted their article (the others
\*           returned an existing id, or none)
IdleCall ==
    [pc |-> "idle", kind |-> "none", art |-> NoArticle,
     res |-> NoId, path |-> "none",
     stored |-> 0, duplicates |-> 0, errors |-> 0, newly |-> 0]

StoreInit ==
    /\ articles_collection = {}
    /\ next_oid = 1
    /\ now = 0
    /\ calls = [p \in Procs |-> IdleCall]
    /\ ncalls = 0

\* The articles a caller can hand over at this moment: scraped_at is set to
\* datetime.now() when the scraper builds the Article; the time the scrape and
\* the store call take passes while the call is in progress.
Inputs == {Article(u, h, now) : u \in Urls, h \in Hashes}

\* Entry of store_article for the article a: topic extraction and to_dict touch
\* only the caller's in-memory article.
EnterStoreArticle(c, a) ==
    [c EXCEPT !.pc = "find_url", !.art = a, !.res = NoId, !.path = "none"]

\* What follows the return of store_article: a single put returns to its
\* caller, a batch goes on to classify the id.
AfterStoreArticle(c) == IF c.kind = "batch" THEN "classify" ELSE "returned"

\* store_article(article), called directly
StoreArticle(p) ==
    /\ calls[p].pc = "idle"
    /\ ncalls < MaxCalls
    /\ \E a \in Inputs :
         calls' = [calls EXCEPT ![p] =
                      EnterStoreArticle([IdleCall EXCEPT !.kind = "single"], a)]
    /\ ncalls' = ncalls + 1
    /\ UNCHANGED <<articles_collection, next_oid, now, schedVars, lifeVars, scrapingVars>>

\* store_article, lines 49-53: the check by url
FindByUrl(p) ==
    /\ calls[p].pc = "find_url"
    /\ LET c == calls[p] IN
         IF ExistingByUrl(c.art) = {}
         THEN calls' = [calls EXCEPT ![p].pc = "find_hash"]
         ELSE \E d \in ExistingByUrl(c.art) :
                calls' = [calls EXCEPT ![p].res = d.id, ![p].path = "url",
                                       ![p].pc = AfterStoreArticle(c)]
    /\ UNCHANGED <<articles_collection, next_oid, now, ncalls, schedVars, lifeVars, scrapingVars>>

\* store_article, lines 55-59: the check by content hash
FindByHash(p) ==
    /\ calls[p].pc = "find_hash"
    /\ LET c == calls[p] IN
         IF ExistingByHash(c.art) = {}
         THEN calls' = [calls EXCEPT ![p].pc = "insert"]
         ELSE \E d \in ExistingByHash(c.art) :
                calls' = [calls EXCEPT ![p].res = d.id, ![p].path = "hash",
                                       ![p].pc = AfterStoreArticle(c)]
    /\ UNCHANGED <<articles_collection, next_oid, now, ncalls, schedVars, lifeVars, scrapingVars>>

\* store_article, lines 61-66: insert_one, which either inserts the document
\* or raises DuplicateKeyError
InsertOne(p) ==
    /\ calls[p].pc = "insert"
    /\ LET c == calls[p] IN
         IF DuplicateKey(c.art)
         THEN /\ calls' = [calls EXCEPT ![p].pc = "dup_key"]
              /\ UNCHANGED <<articles_collection, next_oid, schedVars, lifeVars, scrapingVars>>
         ELSE /\ articles_collection' =
                    articles_collection \cup {ToDict(c.art, next_oid)}
              /\ next_oid' = next_oid + 1
              /\ calls' = [calls EXCEPT ![p].res = next_oid,
                                        ![p].path = "insert",
                                        ![p].pc = AfterStoreArticle(c)]
    /\ UNCHANGED <<now, ncalls, schedVars, lifeVars, scrapingVars>>

\* store_article, lines 66-75: the DuplicateKeyError handler
HandleDuplicateKey(p) ==
    /\ calls[p].pc = "dup_key"
    /\ LET c == calls[p] IN
         IF ExistingByEither(c.art) = {}
         THEN calls' = [calls EXCEPT ![p].res = NoId, ![p].path = "dup_key",
                                     ![p].pc = AfterStoreArticle(c)]
         ELSE \E d \in ExistingByEither(c.art) :
                calls' = [calls EXCEPT ![p].res = d.id, ![p].path = "dup_key",
                                       ![p].pc = AfterStoreArticle(c)]
    /\ UNCHANGED <<articles_collection, next_oid, now, ncalls, schedVars, lifeVars, scrapingVars>>

\* store_articles_batch(articles) for a list of 1..MaxBatch articles: results
\* initialised, store_article entered for the first one.  The list is the
\* caller's input; its articles, and its end, are drawn as the loop reaches
\* them.
StoreArticlesBatch(p) ==
    /\ calls[p].pc = "idle"
    /\ Cardinality({q \in Procs : calls[q].kind = "batch"}) < MaxBatchCallers
    /\ ncalls < MaxCalls
    /\ \E a \in Inputs :
         calls' = [calls EXCEPT ![p] =
                      EnterStoreArticle([IdleCall EXCEPT !.kind = "batch"], a)]
    /\ ncalls' = ncalls + 1
    /\ UNCHANGED <<articles_collection, next_oid, now, schedVars, lifeVars, scrapingVars>>

\* store_articles_batch, lines 93-102: the bookkeeping of one loop iteration
\* for the id that store_article returned.
Classify(c) ==
    IF c.res = NoId
    THEN [c EXCEPT !.errors = c.errors + 1]
    ELSE IF IsRecentlyInserted(c.res)
         THEN [c EXCEPT !.stored = c.stored + 1]
         ELSE [c EXCEPT !.duplicates = c.duplicates + 1]

\* The outcome of the put itself, recorded beside the results.
Outcome(c) ==
    IF c.path = "insert" THEN [c EXCEPT !.newly = c.newly + 1]
    ELSE c

\* Number of articles of the batch that the loop has dealt with.
Processed(c) == c.stored + c.duplicates + c.errors

\* store_articles_batch, lines 91-105: classify the returned id, then go on
\* with the next article of the list or, at its end, return the results.
BatchClassify(p) ==
    /\ calls[p].pc = "classify"
    /\ LET c == Outcome(Classify(calls[p])) IN
         \/ calls' = [calls EXCEPT ![p] = [c EXCEPT !.pc = "returned"]]
         \/ /\ Processed(c) < MaxBatch
            /\ \E a \in {Article(u, h, c.art.scraped_at) : u \in Urls, h \in Hashes} :
                 calls' = [calls EXCEPT ![p] = EnterStoreArticle(c, a)]
    /\ UNCHANGED <<articles_collection, next_oid, now, ncalls, schedVars, lifeVars, scrapingVars>>

\* The caller takes the result; its thread is free for the next call.
Return(p) ==
    /\ calls[p].pc = "returned"
    /\ calls' = [calls EXCEPT ![p] = IdleCall]
    /\ UNCHANGED <<articles_collection, next_oid, now, ncalls, schedVars, lifeVars, scrapingVars>>

\* update_one with a replacement document instead of a $set update: every
\* field but _id and bias_scores is lost.
ReplaceBiasScores(d, b) ==
    [id |-> d.id, url |-> "", content_hash |-> "", scraped_at |-> 0,
     bias_scores |-> b, topics |-> ""]

\* {'$set': {'bias_scores': bias_scores}}
SetBiasScores(d, b) == [d EXCEPT !.bias_scores = b]

\* update_article_bias_scores(article_id, bias_scores)
UpdateArticleBiasScores ==
    /\ \E oid \in 1 .. next_oid, b \in BiasValues :
         articles_collection' =
             {IF d.id = oid THEN SetBiasScores(d, b) ELSE d : d \in articles_collection}
    /\ articles_collection' # articles_collection
    /\ UNCHANGED <<next_oid, now, calls, ncalls, schedVars, lifeVars, scrapingVars>>

\* delete_many({'scraped_at': {'$lt': cutoff_date}})
OlderThan(retention_days) ==
    {d \in articles_collection : d.scraped_at < now - retention_days * SecondsPerDay}

\* cleanup_old_articles(retention_days)
CleanupOldArticles ==
    /\ \E retention_days \in RetentionChoices :
         /\ OlderThan(retention_days) # {}
         /\ articles_collection' = articles_collection \ OlderThan(retention_days)
    /\ UNCHANGED <<next_oid, calls, ncalls, now, schedVars, lifeVars, scrapingVars>>

\* A minute passes.
Tick ==
    /\ now < MaxTicks * RecentSeconds
    /\ now' = now + RecentSeconds
    /\ UNCHANGED <<articles_collection, next_oid, calls, ncalls, schedVars, lifeVars, scrapingVars>>

\* A day passes.  No store call spans a day: a call is a few round trips,
\* each cut off by the driver's socket timeout.
DayPasses ==
    /\ now \div SecondsPerDay < MaxDays
    /\ \A p \in Procs : calls[p].pc = "idle"
    /\ now' = now + SecondsPerDay
    /\ UNCHANGED <<articles_collection, next_oid, calls, ncalls, schedVars, lifeVars, scrapingVars>>

\* The store under concurrent store_article callers, the analyzer's write-back
\* and the retention purge.
StoreNext ==
    \/ \E p \in Procs : StoreArticle(p)
    \/ \E p \in Procs : FindByUrl(p)
    \/ \E p \in Procs : FindByHash(p)
    \/ \E p \in Procs : InsertOne(p)
    \/ \E p \in Procs : HandleDuplicateKey(p)
    \/ \E p \in Procs : Return(p)
    \/ UpdateArticleBiasScores
    \/ CleanupOldArticles
    \/ DayPasses

\* store_articles_batch callers beside concurrent store_article callers.
BatchNext ==
    \/ \E p \in Procs : StoreArticle(p)
    \/ \E p \in Procs : StoreArticlesBatch(p)
    \/ \E p \in Procs : FindByUrl(p)
    \/ \E p \in Procs : FindByHash(p)
    \/ \E p \in Procs : InsertOne(p)
    \/ \E p \in Procs : HandleDuplicateKey(p)
    \/ \E p \in Procs : BatchClassify(p)
    \/ \E p \in Procs : Return(p)
    \/ Tick

\* ------------------------------------------------------------------------
\* Job scheduler (services/scheduler_service.py)
\* ------------------------------------------------------------------------
\* Times are seconds on the clock "now"; datetime.now() reads it.

\* self.check_interval = 60
check_interval == 60
\* time.sleep(60) after an error in the scheduler loop
ErrorSleepSeconds == 60
\* timedelta(minutes=5): the delay of a retry
RetryMinutes == 5
\* last_run: Optional[datetime] = None
NoTime == -1
\* last_error: Optional[str] = None
NoError == "None"
\* str(e) of the exception a job function raised
ErrorMessage == "error"

\* timedelta(minutes=m), in seconds
Minutes(m) == m * 60

\* Job ids, intervals (minutes) and retry limits the callers of add_job and
\* update_job_interval pass.
JobIds == {"j1", "j2"}
Intervals == {1, 2}
MaxRetriesChoices == {1, 2}

\* A deleted entry of the dict's entry table.  The iterator of a dict walks
\* the entry table in insertion order and skips deleted entries; the table is
\* not compacted within the number of insertions modelled here.
Hole == ""

\* ScheduledJob(job_id, name, function, interval_minutes, next_run=..,
\* enabled=.., max_retries=..): the other fields take the dataclass defaults.
ScheduledJob(interval_minutes, next_run, enabled, max_retries) ==
    [interval_minutes |-> interval_minutes, last_run |-> NoTime,
     next_run |-> next_run, enabled |-> enabled, max_retries |-> max_retries,
     retry_count |-> 0, last_error |-> NoError,
     total_runs |-> 0, successful_runs |-> 0, failed_runs |-> 0]

\* The job threads of one job, by their place in _execute_job:
\*   started    the thread was started and has not yet run its first statement
\*   running    last_run and total_runs are written, job.function() is running
\*   succeeded  the function returned and the success fields are written; the
\*              next run is not yet scheduled
\*   failed     the function raised and the failure fields are written; the
\*              next run is not yet scheduled
NoThreads == [started |-> 0, running |-> 0, succeeded |-> 0, failed |-> 0]

Threads(e) == e.started + e.running + e.succeeded + e.failed

\* The scheduler thread outside a scan pass.
\*   pc  "off" (not started), "start" (started, before its first pass),
\*       "iter" (inside "for job in self.jobs.values()"),
\*       "wait" (in stop_event.wait), "sleep" (in time.sleep after an error)
\*   current_time   the local of the pass
\*   pos, len, used the dict iterator: next entry to look at, items it still
\*                  expects, and the dict size when it was created
\*   wake_at        when the wait or the sleep is over
\*   dispatched     the jobs the pass has started a thread for
LoopAt(pc, wake_at) ==
    [pc |-> pc, current_time |-> 0, pos |-> 0, len |-> 0, used |-> 0,
     wake_at |-> wake_at, dispatched |-> {}]

\* No management call is in progress.
\*   pc  "idle", "enable" (enable_job between its two statements),
\*       "interval" (update_job_interval between its two statements)
\*   was_enabled  whether the job was enabled when enable_job was called
ApiIdle ==
    [pc |-> "idle", job_id |-> "", interval_minutes |-> 0, was_enabled |-> FALSE]

\* What _save_config writes for one job (retry_count is not written).
SavedJob(job) ==
    [interval_minutes |-> job.interval_minutes, enabled |-> job.enabled,
     max_retries |-> job.max_retries, last_run |-> job.last_run,
     next_run |-> job.next_run, total_runs |-> job.total_runs,
     successful_runs |-> job.successful_runs, failed_runs |-> job.failed_runs,
     last_error |-> job.last_error]

\* _save_config: the 'jobs' object of the file, from the jobs map js.
SaveConfig(js) == [j \in DOMAIN js |-> SavedJob(js[j])]

\* SchedulerService(): no jobs, not running (_load_config reads only
\* check_interval).
SchedulerInit ==
    /\ jobs = << >>
    /\ jobs_entries = << >>
    /\ running = FALSE
    /\ loop = LoopAt("off", 0)
    /\ execs = [j \in JobIds |-> NoThreads]
    /\ orphans = 0
    /\ api = ApiIdle
    /\ config_file = << >>
    /\ retries = [j \in JobIds |-> 0]
    /\ nops = 0
    /\ nruns = 0
    /\ stop_event = FALSE
    /\ stale = << >>
    /\ join_until = 0
    /\ nstarts = 0
    /\ nrestarts = 0

\* self.jobs[job_id] = job
SetItem(js, job_id, job) ==
    [j \in DOMAIN js \cup {job_id} |-> IF j = job_id THEN job ELSE js[j]]

\* del self.jobs[job_id]
DelItem(js, job_id) == [j \in DOMAIN js \ {job_id} |-> js[j]]

\* The job threads of job_id lose their job object from self.jobs: they go on
\* with an object nothing else reads.
Orphaned(job_id) ==
    /\ orphans' = orphans + Threads(execs[job_id])
    /\ execs' = [execs EXCEPT ![job_id] = NoThreads]
    /\ retries' = [retries EXCEPT ![job_id] = 0]

\* add_job(job_id, name, function, interval_minutes, enabled, max_retries),
\* with enabled = True as every caller passes it.  A new key takes the next
\* entry of the dict, an existing key keeps its entry and gets the new
\* object.  The ids are interchangeable names: the first job added is "j1".
\* One thread calls the management methods, one call at a time.
AddJob ==
    /\ api.pc = "idle" /\ nops < MaxOps
    /\ \E job_id \in JobIds, m \in Intervals, r \in MaxRetriesChoices :
         /\ job_id = "j1" \/ jobs_entries # << >>
         /\ jobs' = SetItem(jobs, job_id, ScheduledJob(m, now + Minutes(m), TRUE, r))
         /\ jobs_entries' = IF job_id \in DOMAIN jobs THEN jobs_entries
                            ELSE Append(jobs_entries, job_id)
         /\ Orphaned(job_id)
    /\ config_file' = SaveConfig(jobs')
    /\ nops' = nops + 1
    /\ UNCHANGED <<running, loop, api, nruns, now, storeData, lifeVars, scrapingVars>>

\* remove_job(job_id)
RemoveJob ==
    /\ api.pc = "idle" /\ nops < MaxOps
    /\ \E job_id \in DOMAIN jobs :
         /\ jobs' = DelItem(jobs, job_id)
         /\ jobs_entries' = [i \in DOMAIN jobs_entries |->
                               IF jobs_entries[i] = job_id THEN Hole
                               ELSE jobs_entries[i]]
         /\ Orphaned(job_id)
    /\ config_file' = SaveConfig(jobs')
    /\ nops' = nops + 1
    /\ UNCHANGED <<running, loop, api, nruns, now, storeData, lifeVars, scrapingVars>>

\* enable_job(job_id), first statement: self.jobs[job_id].enabled = True
EnableJob ==
    /\ api.pc = "idle" /\ nops < MaxOps
    /\ \E job_id \in DOMAIN jobs :
         /\ jobs' = [jobs EXCEPT ![job_id].enabled = TRUE]
         /\ api' = [pc |-> "enable", job_id |-> job_id, interval_minutes |-> 0,
                     was_enabled |-> jobs[job_id].enabled]
    /\ nops' = nops + 1
    /\ UNCHANGED <<jobs_entries, running, loop, execs, orphans, config_file,
                   retries, nruns, now, storeData, lifeVars, scrapingVars>>

\* enable_job, second statement and the save:
\* self.jobs[job_id].next_run = now + its interval
EnableJobNextRun ==
    /\ api.pc = "enable" /\ api.job_id \in DOMAIN jobs
    /\ jobs' = [jobs EXCEPT ![api.job_id].next_run =
                                now + Minutes(jobs[api.job_id].interval_minutes)]
    /\ retries' = [retries EXCEPT ![api.job_id] = 0]
    /\ config_file' = SaveConfig(jobs')
    /\ api' = ApiIdle
    /\ UNCHANGED <<jobs_entries, running, loop, execs, orphans, nops, nruns,
                   now, storeData, lifeVars, scrapingVars>>

\* disable_job(job_id)
DisableJob ==
    /\ api.pc = "idle" /\ nops < MaxOps
    /\ \E job_id \in DOMAIN jobs :
         jobs' = [jobs EXCEPT ![job_id].enabled = FALSE]
    /\ config_file' = SaveConfig(jobs')
    /\ nops' = nops + 1
    /\ UNCHANGED <<jobs_entries, running, loop, execs, orphans, api, retries,
                   nruns, now, storeData, lifeVars, scrapingVars>>

\* update_job_interval(job_id, interval_minutes), first statement:
\* self.jobs[job_id].interval_minutes = interval_minutes
UpdateJobInterval ==
    /\ api.pc = "idle" /\ nops < MaxOps
    /\ \E job_id \in DOMAIN jobs, m \in Intervals :
         /\ jobs' = [jobs EXCEPT ![job_id].interval_minutes = m]
         /\ api' = [pc |-> "interval", job_id |-> job_id, interval_minutes |-> m,
                     was_enabled |-> FALSE]
    /\ nops' = nops + 1
    /\ UNCHANGED <<jobs_entries, running, loop, execs, orphans, config_file,
                   retries, nruns, now, storeData, lifeVars, scrapingVars>>

\* update_job_interval, second statement and the save:
\* self.jobs[job_id].next_run = now + interval_minutes
UpdateJobIntervalNextRun ==
    /\ api.pc = "interval" /\ api.job_id \in DOMAIN jobs
    /\ jobs' = [jobs EXCEPT ![api.job_id].next_run =
                                now + Minutes(api.interval_minutes)]
    /\ retries' = [retries EXCEPT ![api.job_id] = 0]
    /\ config_file' = SaveConfig(jobs')
    /\ api' = ApiIdle
    /\ UNCHANGED <<jobs_entries, running, loop, execs, orphans, nops, nruns,
                   now, storeData, lifeVars, scrapingVars>>

\* start(): "if self.running: return"; self.running = True;
\* self.stop_event.clear(); a new scheduler thread is started. The thread of
\* an earlier start() that is still alive lives on, no longer referenced.
Start ==
    /\ ~running /\ api.pc = "idle" /\ nstarts < MaxStarts
    /\ running' = TRUE
    /\ stop_event' = FALSE
    /\ stale' = IF loop.pc = "off" THEN stale
                ELSE [th \in DOMAIN stale \cup {nstarts} |->
                        IF th = nstarts THEN loop ELSE stale[th]]
    /\ loop' = LoopAt("start", 0)
    /\ nstarts' = nstarts + 1
    /\ UNCHANGED <<jobs, jobs_entries, execs, orphans, api, config_file,
                   retries, nops, nruns, now, storeData, join_until,
                   nrestarts, scrapingVars>>

\* _scheduler_loop: the loop condition holds (the stop event is not set),
\* current_time = datetime.now(), and the iterator over self.jobs.values() is
\* created.
ScanBegin ==
    /\ ~stop_event
    /\ \/ loop.pc = "start"
       \/ loop.pc \in {"wait", "sleep"} /\ now >= loop.wake_at
    /\ loop' = [pc |-> "iter", current_time |-> now, pos |-> 1,
                len |-> Cardinality(DOMAIN jobs),
                used |-> Cardinality(DOMAIN jobs),
                wake_at |-> 0, dispatched |-> {}]
    /\ UNCHANGED <<jobs, jobs_entries, running, execs, orphans, api,
                   config_file, retries, nops, nruns, now, storeData, lifeVars, scrapingVars>>

\* The index of the first entry at or after pos that is not deleted, 0 when
\* there is none.
NextEntry(pos) ==
    LET live == {i \in pos .. Len(jobs_entries) : jobs_entries[i] # Hole}
    IN  IF live = {} THEN 0
        ELSE CHOOSE i \in live : \A k \in live : i <= k

\* The dict iterator raises RuntimeError: the dict changed size since the
\* iterator was created, or an entry turns up after all expected items were
\* handed out.
IteratorRaises ==
    \/ loop.used # Cardinality(DOMAIN jobs)
    \/ NextEntry(loop.pos) # 0 /\ loop.len = 0

\* "if not job.enabled: continue" and
\* "if job.next_run and current_time >= job.next_run"
IsDue(job, current_time) ==
    job.enabled /\ job.next_run # NoTime /\ current_time >= job.next_run

\* One turn of "for job in self.jobs.values()": the iterator hands out the next
\* job; a job that is enabled and due gets its own daemon thread.
ScanVisit ==
    /\ loop.pc = "iter" /\ ~IteratorRaises /\ NextEntry(loop.pos) # 0
    /\ LET i == NextEntry(loop.pos)
           job_id == jobs_entries[i]
       IN  IF IsDue(jobs[job_id], loop.current_time)
           THEN /\ nruns < MaxRuns
                /\ execs' = [execs EXCEPT ![job_id].started = @ + 1]
                /\ nruns' = nruns + 1
                /\ loop' = [loop EXCEPT !.pos = i + 1, !.len = @ - 1,
                                        !.dispatched = @ \cup {job_id}]
           ELSE /\ loop' = [loop EXCEPT !.pos = i + 1, !.len = @ - 1]
                /\ UNCHANGED <<execs, nruns>>
    /\ UNCHANGED <<jobs, jobs_entries, running, orphans, api, config_file,
                   retries, nops, now, storeData, lifeVars, scrapingVars>>

\* The iterator is exhausted: the pass is over, stop_event.wait(check_interval)
ScanEnd ==
    /\ loop.pc = "iter" /\ ~IteratorRaises /\ NextEntry(loop.pos) = 0
    /\ loop' = LoopAt("wait", now + check_interval)
    /\ UNCHANGED <<jobs, jobs_entries, running, execs, orphans, api,
                   config_file, retries, nops, nruns, now, storeData, lifeVars, scrapingVars>>

\* "except Exception": the pass is given up, time.sleep(60)
ScanFails ==
    /\ loop.pc = "iter" /\ IteratorRaises
    /\ loop' = LoopAt("sleep", now + ErrorSleepSeconds)
    /\ UNCHANGED <<jobs, jobs_entries, running, execs, orphans, api,
                   config_file, retries, nops, nruns, now, storeData, lifeVars, scrapingVars>>

\* _execute_job, before the function: job.last_run = now; job.total_runs += 1
Started(job, t) == [job EXCEPT !.last_run = t, !.total_runs = @ + 1]

ExecStart(job_id) ==
    /\ execs[job_id].started > 0
    /\ jobs' = [jobs EXCEPT ![job_id] = Started(@, now)]
    /\ execs' = [execs EXCEPT ![job_id].started = @ - 1, ![job_id].running = @ + 1]
    /\ UNCHANGED <<jobs_entries, running, loop, orphans, api, config_file,
                   retries, nops, nruns, now, storeData, lifeVars, scrapingVars>>

\* The success statements with last_run written once more.
SucceededNow(job, t) ==
    [job EXCEPT !.successful_runs = @ + 1, !.retry_count = 0,
                !.last_error = NoError, !.last_run = t]

\* job.successful_runs += 1; job.retry_count = 0; job.last_error = None
Succeeded(job, t) ==
    [job EXCEPT !.successful_runs = @ + 1, !.retry_count = 0,
                !.last_error = NoError]

\* job.function() returns
JobSucceeds(job_id) ==
    /\ execs[job_id].running > 0
    /\ jobs' = [jobs EXCEPT ![job_id] = Succeeded(@, now)]
    /\ execs' = [execs EXCEPT ![job_id].running = @ - 1, ![job_id].succeeded = @ + 1]
    /\ UNCHANGED <<jobs_entries, running, loop, orphans, api, config_file,
                   retries, nops, nruns, now, storeData, lifeVars, scrapingVars>>

\* job.next_run = datetime.now() + timedelta(minutes=job.interval_minutes)
NextRegularRun(job, t) == [job EXCEPT !.next_run = t + Minutes(job.interval_minutes)]

\* The success path schedules the next run; "finally: self._save_config()"
ScheduleNextRun(job_id) ==
    /\ execs[job_id].succeeded > 0
    /\ jobs' = [jobs EXCEPT ![job_id] = NextRegularRun(@, now)]
    /\ execs' = [execs EXCEPT ![job_id].succeeded = @ - 1]
    /\ retries' = [retries EXCEPT ![job_id] = 0]
    /\ config_file' = SaveConfig(jobs')
    /\ UNCHANGED <<jobs_entries, running, loop, orphans, api, nops, nruns,
                   now, storeData, lifeVars, scrapingVars>>

\* job.failed_runs += 1; job.retry_count += 1; job.last_error = str(e)
Failed(job, e) ==
    [job EXCEPT !.failed_runs = @ + 1, !.retry_count = @ + 1, !.last_error = e]

\* job.function() raises
JobFails(job_id) ==
    /\ execs[job_id].running > 0
    /\ jobs' = [jobs EXCEPT ![job_id] = Failed(@, ErrorMessage)]
    /\ execs' = [execs EXCEPT ![job_id].running = @ - 1, ![job_id].failed = @ + 1]
    /\ UNCHANGED <<jobs_entries, running, loop, orphans, api, config_file,
                   retries, nops, nruns, now, storeData, lifeVars, scrapingVars>>

\* if job.retry_count < job.max_retries
RetryAllowed(job) == job.retry_count < job.max_retries

\* The two branches after a failure: the retry in 5 minutes, or the next
\* regular run with retry_count back at 0.
AfterFailure(job, t) ==
    IF RetryAllowed(job)
    THEN [job EXCEPT !.next_run = t + Minutes(RetryMinutes)]
    ELSE [job EXCEPT !.next_run = t + Minutes(job.interval_minutes),
                     !.retry_count = 0]

\* The failure path schedules the next run; "finally: self._save_config()"
ScheduleAfterFailure(job_id) ==
    /\ execs[job_id].failed > 0
    /\ jobs' = [jobs EXCEPT ![job_id] = AfterFailure(@, now)]
    /\ execs' = [execs EXCEPT ![job_id].failed = @ - 1]
    /\ retries' = [retries EXCEPT ![job_id] =
                      IF RetryAllowed(jobs[job_id]) THEN @ + 1 ELSE 0]
    /\ config_file' = SaveConfig(jobs')
    /\ UNCHANGED <<jobs_entries, running, loop, orphans, api, nops, nruns,
                   now, storeData, lifeVars, scrapingVars>>

\* A job thread whose job was replaced or removed ends:
\* "finally: self._save_config()"
OrphanEnds ==
    /\ orphans > 0
    /\ orphans' = orphans - 1
    /\ config_file' = SaveConfig(jobs)
    /\ UNCHANGED <<jobs, jobs_entries, running, loop, execs, api, retries,
                   nops, nruns, now, storeData, lifeVars, scrapingVars>>

\* ------------------------------------------------------------------------
\* Scheduler lifecycle: stop(), restarted loops, a new process
\* ------------------------------------------------------------------------

\* self.scheduler_thread.join(timeout=10)
JoinTimeout == 10

\* A scheduler thread l is about to evaluate "while not
\* self.stop_event.is_set()": it has just been started, its
\* stop_event.wait(check_interval) returned (the event was set or the time is
\* up), or its time.sleep(60) is over.
Awake(l) ==
    \/ l.pc = "start"
    \/ l.pc = "wait" /\ (stop_event \/ now >= l.wake_at)
    \/ l.pc = "sleep" /\ now >= l.wake_at

\* The locals of a scan pass that begins now.
PassBegun ==
    [pc |-> "iter", current_time |-> now, pos |-> 1,
     len |-> Cardinality(DOMAIN jobs), used |-> Cardinality(DOMAIN jobs),
     wake_at |-> 0, dispatched |-> {}]

\* The dict iterator of the scheduler thread l raises RuntimeError.
Raises(l) ==
    \/ l.used # Cardinality(DOMAIN jobs)
    \/ NextEntry(l.pos) # 0 /\ l.len = 0

\* stop(): "if self.scheduler_thread and self.scheduler_thread.is_alive():
\* self.scheduler_thread.join(timeout=10)"
StopCall ==
    IF loop.pc = "off" THEN ApiIdle ELSE [ApiIdle EXCEPT !.pc = "join"]

\* stop(): "if not self.running: return"; self.stop_event.set();
\* self.running = False; then the join
Stop ==
    /\ running /\ api.pc = "idle"
    /\ stop_event' = TRUE
    /\ running' = FALSE
    /\ api' = StopCall
    /\ join_until' = now + JoinTimeout
    /\ UNCHANGED <<jobs, jobs_entries, loop, execs, orphans, config_file,
                   retries, nops, nruns, now, storeData, stale, nstarts,
                   nrestarts, scrapingVars>>

\* stop() returns: the scheduler thread has ended or the join timed out.
StopReturns ==
    /\ api.pc = "join"
    /\ loop.pc = "off" \/ now >= join_until
    /\ api' = ApiIdle
    /\ UNCHANGED <<jobs, jobs_entries, running, loop, execs, orphans,
                   config_file, retries, nops, nruns, now, storeData,
                   lifeVars, scrapingVars>>

\* _scheduler_loop: "while not self.stop_event.is_set()" finds the event set
\* and the scheduler thread ends.
LoopExits ==
    /\ Awake(loop) /\ stop_event
    /\ loop' = LoopAt("off", 0)
    /\ UNCHANGED <<jobs, jobs_entries, running, execs, orphans, api,
                   config_file, retries, nops, nruns, now, storeData,
                   lifeVars, scrapingVars>>

\* The scheduler thread th of an earlier start() finds the event clear and
\* begins a pass.
StaleScanBegin(th) ==
    /\ th \in DOMAIN stale /\ Awake(stale[th]) /\ ~stop_event
    /\ stale' = [stale EXCEPT ![th] = PassBegun]
    /\ UNCHANGED <<schedVars, now, storeData, stop_event, join_until,
                   nstarts, nrestarts, scrapingVars>>

\* One turn of "for job in self.jobs.values()" in the thread th.
StaleScanVisit(th) ==
    /\ th \in DOMAIN stale /\ stale[th].pc = "iter"
    /\ ~Raises(stale[th]) /\ NextEntry(stale[th].pos) # 0
    /\ LET i == NextEntry(stale[th].pos)
           job_id == jobs_entries[i]
       IN  IF IsDue(jobs[job_id], stale[th].current_time)
           THEN /\ nruns < MaxRuns
                /\ execs' = [execs EXCEPT ![job_id].started = @ + 1]
                /\ nruns' = nruns + 1
                /\ stale' = [stale EXCEPT ![th].pos = i + 1, ![th].len = @ - 1,
                                          ![th].dispatched = @ \cup {job_id}]
           ELSE /\ stale' = [stale EXCEPT ![th].pos = i + 1, ![th].len = @ - 1]
                /\ UNCHANGED <<execs, nruns>>
    /\ UNCHANGED <<jobs, jobs_entries, running, loop, orphans, api,
                   config_file, retries, nops, now, storeData, stop_event,
                   join_until, nstarts, nrestarts, scrapingVars>>

\* The pass of the thread th is over: stop_event.wait(check_interval)
StaleScanEnd(th) ==
    /\ th \in DOMAIN stale /\ stale[th].pc = "iter"
    /\ ~Raises(stale[th]) /\ NextEntry(stale[th].pos) = 0
    /\ stale' = [stale EXCEPT ![th] = LoopAt("wait", now + check_interval)]
    /\ UNCHANGED <<schedVars, now, storeData, stop_event, join_until,
                   nstarts, nrestarts, scrapingVars>>

\* "except Exception" in the thread th: time.sleep(60)
StaleScanFails(th) ==
    /\ th \in DOMAIN stale /\ stale[th].pc = "iter" /\ Raises(stale[th])
    /\ stale' = [stale EXCEPT ![th] = LoopAt("sleep", now + ErrorSleepSeconds)]
    /\ UNCHANGED <<schedVars, now, storeData, stop_event, join_until,
                   nstarts, nrestarts, scrapingVars>>

\* The thread th finds the event set and ends.
StaleExits(th) ==
    /\ th \in DOMAIN stale /\ Awake(stale[th]) /\ stop_event
    /\ stale' = [t \in DOMAIN stale \ {th} |-> stale[t]]
    /\ UNCHANGED <<schedVars, now, storeData, stop_event, join_until,
                   nstarts, nrestarts, scrapingVars>>

\* __init__ and _load_config: self.jobs = {}; of the file only
\* check_interval is read.
LoadConfig(file) == << >>

\* The process ends and a new one constructs SchedulerService(): the threads
\* are gone, the config file is still there.
Restart ==
    /\ nrestarts < MaxRestarts
    /\ jobs' = LoadConfig(config_file)
    /\ jobs_entries' = << >>
    /\ running' = FALSE
    /\ loop' = LoopAt("off", 0)
    /\ execs' = [j \in JobIds |-> NoThreads]
    /\ orphans' = 0
    /\ api' = ApiIdle
    /\ retries' = [j \in JobIds |-> 0]
    /\ stop_event' = FALSE
    /\ stale' = << >>
    /\ nrestarts' = nrestarts + 1
    /\ UNCHANGED <<config_file, nops, nruns, now, storeData, join_until,
                   nstarts, scrapingVars>>

\* The times something is waiting for: the end of the loop's wait and the next
\* runs of the jobs; and the next minute.
FutureTimes ==
    {t \in {now + Minutes(1), loop.wake_at}
           \cup {jobs[j].next_run : j \in DOMAIN jobs}
           \cup {stale[th].wake_at : th \in DOMAIN stale}
           \cup {join_until : pc \in {api.pc} \cap {"join"}} :
        t > now /\ t <= Minutes(MaxMinutes)}

\* The statements between two calls of a thread take no time on this clock:
\* only a running job function, the loop's wait and sleep, the join of stop()
\* and idle callers let it advance. A scheduler thread whose wait the stop
\* event has ended runs on before the clock does, and the join of stop()
\* ends when the thread ends or its ten seconds are over.
Quiet ==
    /\ loop.pc # "iter" /\ api.pc \in {"idle", "join"}
    /\ \A j \in JobIds : Threads(execs[j]) = execs[j].running
    /\ \A th \in DOMAIN stale : stale[th].pc # "iter"
    /\ stop_event =>
          /\ loop.pc \notin {"start", "wait"}
          /\ \A th \in DOMAIN stale : stale[th].pc \notin {"start", "wait"}
    /\ api.pc = "join" => loop.pc # "off" /\ now < join_until

\* Time passes.
TimePasses ==
    /\ Quiet
    /\ \E t \in FutureTimes :
         /\ api.pc = "join" => t <= join_until
         /\ now' = t
    /\ UNCHANGED <<schedVars, storeData, lifeVars, scrapingVars>>

\* The scheduler with its loop thread, its job threads and one caller of the
\* management methods.
SchedulerNext ==
    \/ AddJob
    \/ RemoveJob
    \/ EnableJob
    \/ EnableJobNextRun
    \/ DisableJob
    \/ UpdateJobInterval
    \/ UpdateJobIntervalNextRun
    \/ Start
    \/ ScanBegin
    \/ ScanVisit
    \/ ScanEnd
    \/ ScanFails
    \/ \E job_id \in JobIds : ExecStart(job_id)
    \/ \E job_id \in JobIds : JobSucceeds(job_id)
    \/ \E job_id \in JobIds : ScheduleNextRun(job_id)
    \/ \E job_id \in JobIds : JobFails(job_id)
    \/ \E job_id \in JobIds : ScheduleAfterFailure(job_id)
    \/ OrphanEnds
    \/ TimePasses

\* ------------------------------------------------------------------------
\* Scheduled jobs of the orchestrator (services/scraping_orchestrator.py)
\* ------------------------------------------------------------------------

\* initialize(): the job "scrape_<source>" calls scrape_single_source, the job
\* "analyze_pending_bias" calls analyze_pending_articles.
JobFunction(job_id) ==
    IF job_id = "j1" THEN "scrape_single_source" ELSE "analyze_pending_articles"

\* No job function has returned yet.
NoResult == [function |-> "none", raised |-> FALSE, scraped |-> 0,
             stored |-> 0, duplicates |-> 0, analyzed |-> 0, errors |-> 0]

\* store_articles_batch(articles) for n articles of which d are already
\* stored: with the server down every store_article catches the driver's
\* exception and returns None, which the batch counts as an error.
StoreArticlesBatchResult(n, d, up) ==
    IF up THEN [stored |-> n - d, duplicates |-> d, errors |-> 0]
    ELSE [stored |-> 0, duplicates |-> 0, errors |-> n]

\* scrape_single_source(source_name) when the scraper manager hands it n
\* articles: it returns a dict on every path, "except Exception" included.
ScrapeSingleSource(n, d, up) ==
    IF n = 0
    THEN [NoResult EXCEPT !.function = "scrape_single_source", !.errors = 1]
    ELSE LET storage_result == StoreArticlesBatchResult(n, d, up)
         IN  [NoResult EXCEPT !.function = "scrape_single_source",
                              !.scraped = n,
                              !.stored = storage_result.stored,
                              !.duplicates = storage_result.duplicates,
                              !.errors = storage_result.errors]

\* get_articles_without_bias_analysis(limit) when n articles are pending: with
\* the server down it catches the driver's exception and returns [].
PendingArticles(n, up) == IF up THEN n ELSE 0

\* analyze_pending_articles(): no pending articles, or every pending article
\* analysed and updated (update_article_bias_scores returns False when the
\* server is down); it returns a dict on every path.
AnalyzePendingArticles(n, up) ==
    LET pending_articles == PendingArticles(n, up)
    IN  [NoResult EXCEPT !.function = "analyze_pending_articles",
                         !.analyzed = IF up THEN pending_articles ELSE 0,
                         !.errors = IF up THEN 0 ELSE pending_articles]

\* The numbers of articles a run scrapes or finds pending.
ArticleCounts == 0 .. MaxScraped

\* job.function() of _execute_job with the orchestrator's functions: the
\* function returns its dict, which _execute_job drops, or raises.
JobFunctionEnds(job_id) ==
    /\ execs[job_id].running > 0
    /\ \E n \in ArticleCounts, d \in ArticleCounts :
         /\ d <= n
         /\ job_result' =
               IF JobFunction(job_id) = "scrape_single_source"
               THEN ScrapeSingleSource(n, d, store_available)
               ELSE AnalyzePendingArticles(n, store_available)
    /\ jobs' = [jobs EXCEPT ![job_id] =
                   IF job_result'.raised THEN Failed(@, ErrorMessage)
                   ELSE Succeeded(@, now)]
    /\ execs' = IF job_result'.raised
                THEN [execs EXCEPT ![job_id].running = @ - 1,
                                   ![job_id].failed = @ + 1]
                ELSE [execs EXCEPT ![job_id].running = @ - 1,
                                   ![job_id].succeeded = @ + 1]
    /\ UNCHANGED <<jobs_entries, running, loop, orphans, api, config_file,
                   retries, nops, nruns, now, storeData, lifeVars,
                   store_available, managerVars, scraperVars, serviceVars>>

\* The MongoDB server stops answering.
StoreOutage ==
    /\ store_available
    /\ store_available' = FALSE
    /\ UNCHANGED <<storeVars, schedVars, lifeVars, job_result, managerVars,
                   scraperVars, serviceVars>>

\* The MongoDB server answers again.
StoreRecovers ==
    /\ ~store_available
    /\ store_available' = TRUE
    /\ UNCHANGED <<storeVars, schedVars, lifeVars, job_result, managerVars,
                   scraperVars, serviceVars>>

\* The scheduler running the orchestrator's scraping and analysis jobs while
\* the store comes and goes. (No function raises, so the failure path of
\* _execute_job has no step here.)
JobsNext ==
    \/ AddJob
    \/ Start
    \/ ScanBegin
    \/ ScanVisit
    \/ ScanEnd
    \/ ScanFails
    \/ \E job_id \in JobIds : ExecStart(job_id)
    \/ \E job_id \in JobIds : JobFunctionEnds(job_id)
    \/ \E job_id \in JobIds : ScheduleNextRun(job_id)
    \/ OrphanEnds
    \/ StoreOutage
    \/ StoreRecovers
    \/ TimePasses

JobsInit ==
    /\ store_available = TRUE
    /\ job_result = NoResult

\* ------------------------------------------------------------------------
\* Scraper manager (scrapers/scraper_manager.py)
\* ------------------------------------------------------------------------
\* Of a source's statistics the model keeps total_errors and is_healthy; an
\* adapter (scraper.scrape_articles) is a call that returns a number of
\* articles or raises.

\* if stats['total_errors'] >= 3
UnhealthyErrors == 3

\* The registered sources (self.scrapers) and the threads that call
\* scrape_single_source.
Sources == {"s1", "s2"}
Scrapers == 1 .. MaxScrapers

\* __init__: 'total_errors': 0, 'is_healthy': True
InitialStats == [total_errors |-> 0, is_healthy |-> TRUE]

\* A thread that is not inside scrape_single_source.
\*   pc  "idle", "adapter" (inside scraper.scrape_articles), "failed" (inside
\*       _update_scraper_stats(success=False), total_errors read, not written)
\*   warned    whether the call logged "marked as unhealthy, attempting
\*             anyway"
\*   returned  what its last call returned: "articles" (the adapter's list) or
\*             "[]" (after an exception)
NoCall ==
    [pc |-> "idle", source_name |-> "", errors_read |-> 0, warned |-> FALSE,
     returned |-> ""]

\* The future of a source in scrape_all_sources:
\*   "none", "running" (submitted to the pool), "returned", "raised",
\*   "collected" (handed out by as_completed and dealt with)
\* No scrape_all_sources call has been made.
\*   pc  "idle", "collecting" (in the as_completed loop), "failed" (inside
\*       _update_scraper_stats(success=False)), "returned"
\*   found    what each adapter returned
\*   failed   the sources whose future raised
\*   results  the dict the call builds and returns
NoScrapeAll ==
    [pc |-> "idle", futures |-> [s \in Sources |-> "none"],
     found |-> [s \in Sources |-> 0], failed |-> {}, results |-> << >>,
     source_name |-> "", errors_read |-> 0]

ManagerInit ==
    /\ scraper_stats = [s \in Sources |-> InitialStats]
    /\ scrapes = [c \in Scrapers |-> NoCall]
    /\ scrape_all = NoScrapeAll
    /\ nscrapes = 0
    /\ failed_calls = [s \in Sources |-> 0]
    /\ succeeded_since = [s \in Sources |-> FALSE]

\* The health check with unhealthy sources turned away.
AfterHealthCheckGated(stats) == IF stats.is_healthy THEN "adapter" ELSE "idle"

\* scrape_single_source: "if not self.scraper_stats[source_name]['is_healthy']:
\* logger.warning(... attempting anyway)": the adapter is called either way.
AfterHealthCheck(stats) == IF stats.is_healthy THEN "adapter" ELSE "adapter"

\* _update_scraper_stats(success=True): "if not stats['is_healthy']:
\* stats['is_healthy'] = True"; total_errors is left as it is.
UpdateOnSuccess(stats) == [stats EXCEPT !.is_healthy = TRUE]

\* The failure update that counts nothing.
UpdateOnFailureUncounted(stats, errors_read) == stats

\* _update_scraper_stats(success=False): stats['total_errors'] += 1 writes the
\* value read before plus one; "if stats['total_errors'] >= 3:
\* stats['is_healthy'] = False"
UpdateOnFailure(stats, errors_read) ==
    [total_errors |-> errors_read + 1,
     is_healthy |-> IF errors_read + 1 >= UnhealthyErrors THEN FALSE
                    ELSE stats.is_healthy]

\* scrape_single_source(source_name) up to the call of the adapter
ScrapeSingleSourceBegins(c, s) ==
    /\ scrapes[c].pc = "idle" /\ nscrapes < MaxScrapes
    /\ scrapes' = [scrapes EXCEPT ![c] =
                      [NoCall EXCEPT !.pc = AfterHealthCheck(scraper_stats[s]),
                                     !.source_name = s,
                                     !.warned = ~scraper_stats[s].is_healthy]]
    /\ nscrapes' = nscrapes + 1
    /\ UNCHANGED <<storeVars, schedVars, lifeVars, jobsEnv, scraper_stats,
                   scrape_all, failed_calls, succeeded_since, scraperVars, serviceVars>>

\* The adapter returns its articles: _update_scraper_stats(success=True) and
\* "return articles"
ScrapeSingleSourceReturns(c) ==
    /\ scrapes[c].pc = "adapter"
    /\ LET s == scrapes[c].source_name
       IN  /\ scraper_stats' = [scraper_stats EXCEPT ![s] = UpdateOnSuccess(@)]
           /\ succeeded_since' = [succeeded_since EXCEPT ![s] = TRUE]
    /\ scrapes' = [scrapes EXCEPT ![c].pc = "idle", ![c].returned = "articles"]
    /\ UNCHANGED <<storeVars, schedVars, lifeVars, jobsEnv, scrape_all,
                   nscrapes, failed_calls, scraperVars, serviceVars>>

\* The adapter raises: "except Exception" calls
\* _update_scraper_stats(success=False), which reads total_errors
ScrapeSingleSourceRaises(c) ==
    /\ scrapes[c].pc = "adapter"
    /\ scrapes' = [scrapes EXCEPT
                      ![c].pc = "failed",
                      ![c].errors_read =
                          scraper_stats[scrapes[c].source_name].total_errors]
    /\ UNCHANGED <<storeVars, schedVars, lifeVars, jobsEnv, scraper_stats,
                   scrape_all, nscrapes, failed_calls, succeeded_since,
                   scraperVars, serviceVars>>

\* _update_scraper_stats(success=False) writes total_errors and is_healthy;
\* "return []"
ScrapeSingleSourceRecordsFailure(c) ==
    /\ scrapes[c].pc = "failed"
    /\ LET s == scrapes[c].source_name
       IN  /\ scraper_stats' = [scraper_stats EXCEPT ![s] =
                                   UpdateOnFailure(@, scrapes[c].errors_read)]
           /\ failed_calls' = [failed_calls EXCEPT ![s] = @ + 1]
    /\ scrapes' = [scrapes EXCEPT ![c].pc = "idle", ![c].errors_read = 0,
                                  ![c].returned = "[]"]
    /\ UNCHANGED <<storeVars, schedVars, lifeVars, jobsEnv, scrape_all,
                   nscrapes, succeeded_since, scraperVars, serviceVars>>

\* reset_scraper_health(source_name) for one source, or for all of them
ResetScraperHealth ==
    /\ \E targets \in {{s} : s \in Sources} \cup {Sources} :
         /\ \E s \in targets : scraper_stats[s] # InitialStats
         /\ scraper_stats' = [s \in Sources |->
                                 IF s \in targets THEN InitialStats
                                 ELSE scraper_stats[s]]
         /\ failed_calls' = [s \in Sources |->
                                IF s \in targets THEN 0 ELSE failed_calls[s]]
         /\ succeeded_since' = [s \in Sources |->
                                   IF s \in targets THEN FALSE
                                   ELSE succeeded_since[s]]
    /\ UNCHANGED <<storeVars, schedVars, lifeVars, jobsEnv, scrapes,
                   scrape_all, nscrapes, scraperVars, serviceVars>>

\* scrape_all_sources: every source's adapter is submitted to the pool
ScrapeAllSourcesBegins ==
    /\ scrape_all.pc \in {"idle", "returned"} /\ nscrapes < MaxScrapes
    /\ scrape_all' = [NoScrapeAll EXCEPT
                         !.pc = "collecting",
                         !.futures = [s \in Sources |-> "running"]]
    /\ nscrapes' = nscrapes + 1
    /\ UNCHANGED <<storeVars, schedVars, lifeVars, jobsEnv, scraper_stats,
                   scrapes, failed_calls, succeeded_since, scraperVars, serviceVars>>

\* _scrape_source_with_monitoring returns (articles, stats)
FutureReturns(s) ==
    /\ scrape_all.futures[s] = "running"
    /\ \E n \in ArticleCounts :
         scrape_all' = [scrape_all EXCEPT !.futures[s] = "returned",
                                          !.found[s] = n]
    /\ UNCHANGED <<storeVars, schedVars, lifeVars, jobsEnv, scraper_stats,
                   scrapes, nscrapes, failed_calls, succeeded_since,
                   scraperVars, serviceVars>>

\* _scrape_source_with_monitoring: "raise e"
FutureRaises(s) ==
    /\ scrape_all.futures[s] = "running"
    /\ scrape_all' = [scrape_all EXCEPT !.futures[s] = "raised",
                                        !.failed = @ \cup {s}]
    /\ UNCHANGED <<storeVars, schedVars, lifeVars, jobsEnv, scraper_stats,
                   scrapes, nscrapes, failed_calls, succeeded_since,
                   scraperVars, serviceVars>>

\* results[source_name] = articles (or [] for a source whose future raised)
WithResult(results, s, n) ==
    [t \in DOMAIN results \cup {s} |-> IF t = s THEN n ELSE results[t]]

\* as_completed hands out a future that returned: results[source_name] =
\* articles; _update_scraper_stats(success=True)
CollectResult(s) ==
    /\ scrape_all.pc = "collecting" /\ scrape_all.futures[s] = "returned"
    /\ scrape_all' = [scrape_all EXCEPT
                         !.futures[s] = "collected",
                         !.results = WithResult(@, s, scrape_all.found[s])]
    /\ scraper_stats' = [scraper_stats EXCEPT ![s] = UpdateOnSuccess(@)]
    /\ succeeded_since' = [succeeded_since EXCEPT ![s] = TRUE]
    /\ UNCHANGED <<storeVars, schedVars, lifeVars, jobsEnv, scrapes, nscrapes,
                   failed_calls, scraperVars, serviceVars>>

\* as_completed hands out a future that raised: results[source_name] = [];
\* _update_scraper_stats(success=False) reads total_errors
CollectFailure(s) ==
    /\ scrape_all.pc = "collecting" /\ scrape_all.futures[s] = "raised"
    /\ scrape_all' = [scrape_all EXCEPT
                         !.pc = "failed",
                         !.futures[s] = "collected",
                         !.results = WithResult(@, s, 0),
                         !.source_name = s,
                         !.errors_read = scraper_stats[s].total_errors]
    /\ UNCHANGED <<storeVars, schedVars, lifeVars, jobsEnv, scraper_stats,
                   scrapes, nscrapes, failed_calls, succeeded_since,
                   scraperVars, serviceVars>>

\* _update_scraper_stats(success=False) writes total_errors and is_healthy
CollectRecordsFailure ==
    /\ scrape_all.pc = "failed"
    /\ LET s == scrape_all.source_name
       IN  /\ scraper_stats' = [scraper_stats EXCEPT ![s] =
                                   UpdateOnFailure(@, scrape_all.errors_read)]
           /\ failed_calls' = [failed_calls EXCEPT ![s] = @ + 1]
    /\ scrape_all' = [scrape_all EXCEPT !.pc = "collecting",
                                        !.source_name = "",
                                        !.errors_read = 0]
    /\ UNCHANGED <<storeVars, schedVars, lifeVars, jobsEnv, scrapes, nscrapes,
                   succeeded_since, scraperVars, serviceVars>>

\* Every future was handed out: "return results"
ScrapeAllSourcesReturns ==
    /\ scrape_all.pc = "collecting"
    /\ \A s \in Sources : scrape_all.futures[s] = "collected"
    /\ scrape_all' = [scrape_all EXCEPT !.pc = "returned"]
    /\ UNCHANGED <<storeVars, schedVars, lifeVars, jobsEnv, scraper_stats,
                   scrapes, nscrapes, failed_calls, succeeded_since,
                   scraperVars, serviceVars>>

\* scrape_all_sources, one call after the other.
ScrapeAllNext ==
    \/ ScrapeAllSourcesBegins
    \/ \E s \in Sources : FutureReturns(s)
    \/ \E s \in Sources : FutureRaises(s)
    \/ \E s \in Sources : CollectResult(s)
    \/ \E s \in Sources : CollectFailure(s)
    \/ CollectRecordsFailure
    \/ ScrapeAllSourcesReturns

\* The scraper manager with threads that call scrape_single_source,
\* scrape_all_sources and reset_scraper_health side by side.
ManagerNext ==
    \/ \E c \in Scrapers, s \in Sources : ScrapeSingleSourceBegins(c, s)
    \/ \E c \in Scrapers : ScrapeSingleSourceReturns(c)
    \/ \E c \in Scrapers : ScrapeSingleSourceRaises(c)
    \/ \E c \in Scrapers : ScrapeSingleSourceRecordsFailure(c)
    \/ ResetScraperHealth
    \/ ScrapeAllSourcesBegins
    \/ \E s \in Sources : FutureReturns(s)
    \/ \E s \in Sources : FutureRaises(s)
    \/ \E s \in Sources : CollectResult(s)
    \/ \E s \in Sources : CollectFailure(s)
    \/ CollectRecordsFailure
    \/ ScrapeAllSourcesReturns

\* ------------------------------------------------------------------------
\* Scraper framework (scrapers/base_scraper.py)
\* ------------------------------------------------------------------------
\* Delays are whole seconds.

\* self.max_retries = 3
max_retries == 3
\* self.base_delay = 2.0
base_delay == 2
\* self.max_delay = 15.0
max_delay == 15

\* How the URL behind an article link behaves:
\*   "good"    the first request succeeds and the page holds an article
\*   "flaky"   max_retries requests fail with a RequestException, the next
\*             one succeeds and the page holds an article
\*   "dead"    every request fails with a RequestException
\*   "odd"     session.get raises an exception that is no RequestException
\*   "empty"   the request succeeds, _extract_article_content returns None
\*   "broken"  the request succeeds, _extract_article_content raises
UrlKinds == {"good", "flaky", "dead", "odd", "empty", "broken"}

\* The lists _get_article_urls can return.
UrlLists == UNION {[1 .. n -> UrlKinds] : n \in 0 .. MaxUrls}

\* No scrape_articles call has been made.
\*   pc  "idle", "request" (inside _make_request for the URL number i),
\*       "returned", "raised" (an exception left scrape_articles)
\*   attempt         the attempt argument of _make_request
\*   delay           the last time.sleep of _handle_rate_limiting
\*   articles        the list the call builds: the numbers of the URLs whose
\*                   article was appended
\*   failed_scrapes  the local counter of the same name
NoScrape ==
    [pc |-> "idle", urls |-> << >>, i |-> 0, attempt |-> 0, delay |-> 0,
     articles |-> << >>, failed_scrapes |-> 0]

ScraperInit == scrape = NoScrape

LesserOf(a, b) == IF a <= b THEN a ELSE b

\* _handle_rate_limiting(attempt): min(base_delay * 2 ** attempt +
\* uniform(0, 2), max_delay) for a retry, uniform(2.0, 4.0) before a first
\* request.
Delays(attempt) ==
    IF attempt > 0
    THEN {LesserOf(base_delay * 2 ^ attempt + jitter, max_delay) :
            jitter \in 0 .. 2}
    ELSE 2 .. 4

\* session.get or raise_for_status raises a RequestException.
AttemptFails(kind, attempt) ==
    kind = "dead" \/ (kind = "flaky" /\ attempt < max_retries)

\* The retry test with "<=" for "<".
MayRetryOnceMore(attempt) == attempt <= max_retries

\* _make_request: "if attempt < self.max_retries"
MayRetry(attempt) == attempt < max_retries

\* The for loop of scrape_articles goes on to the next URL, or ends and
\* "return articles".
NextUrl(sc) ==
    IF sc.i < Len(sc.urls)
    THEN [sc EXCEPT !.i = @ + 1, !.attempt = 0]
    ELSE [sc EXCEPT !.pc = "returned", !.attempt = 0]

\* "if article: ... else: failed_scrapes += 1" for an article that is None
NoArticleFrom(sc) == NextUrl([sc EXCEPT !.failed_scrapes = @ + 1])

\* The exception of one URL leaving scrape_articles.
OnUrlErrorRaised(sc) == [sc EXCEPT !.pc = "raised"]

\* The inner "except Exception": failed_scrapes += 1; continue
OnUrlError(sc) == NextUrl([sc EXCEPT !.failed_scrapes = @ + 1])

\* The outer "except Exception": return articles
OnListingError(sc) == [sc EXCEPT !.pc = "returned"]

\* scrape_articles(max_articles): _get_article_urls returns its list;
\* "if not article_urls: return []"
ScrapeArticlesBegins ==
    /\ scrape.pc \in {"idle", "returned"}
    /\ \E urls \in UrlLists :
         scrape' = IF urls = << >> THEN [NoScrape EXCEPT !.pc = "returned"]
                   ELSE [NoScrape EXCEPT !.pc = "request", !.urls = urls,
                                         !.i = 1]
    /\ UNCHANGED <<storeVars, schedVars, lifeVars, jobsEnv, managerVars,
                   serviceVars>>

\* scrape_articles(max_articles): _get_article_urls raises
ListingFails ==
    /\ scrape.pc \in {"idle", "returned"}
    /\ scrape' = OnListingError(NoScrape)
    /\ UNCHANGED <<storeVars, schedVars, lifeVars, jobsEnv, managerVars,
                   serviceVars>>

\* _make_request(url, attempt): the wait, the request fails, and
\* _make_request(url, attempt + 1) is called
RequestRetries ==
    /\ scrape.pc = "request"
    /\ AttemptFails(scrape.urls[scrape.i], scrape.attempt)
    /\ MayRetry(scrape.attempt)
    /\ \E d \in Delays(scrape.attempt) :
         scrape' = [scrape EXCEPT !.attempt = @ + 1, !.delay = d]
    /\ UNCHANGED <<storeVars, schedVars, lifeVars, jobsEnv, managerVars,
                   serviceVars>>

\* _make_request(url, attempt): the wait, the request fails, "Max retries
\* exceeded": return None; _scrape_single_article returns None
RequestGivesUp ==
    /\ scrape.pc = "request"
    /\ AttemptFails(scrape.urls[scrape.i], scrape.attempt)
    /\ ~MayRetry(scrape.attempt)
    /\ \E d \in Delays(scrape.attempt) :
         scrape' = NoArticleFrom([scrape EXCEPT !.delay = d])
    /\ UNCHANGED <<storeVars, schedVars, lifeVars, jobsEnv, managerVars,
                   serviceVars>>

\* _make_request: an exception that is no RequestException passes through
\* _make_request and _scrape_single_article to the for loop
RequestCrashes ==
    /\ scrape.pc = "request"
    /\ scrape.urls[scrape.i] = "odd"
    /\ \E d \in Delays(scrape.attempt) :
         scrape' = OnUrlError([scrape EXCEPT !.delay = d])
    /\ UNCHANGED <<storeVars, schedVars, lifeVars, jobsEnv, managerVars,
                   serviceVars>>

\* The request succeeds and _extract_article_content returns an article:
\* articles.append(article)
ArticleScraped ==
    /\ scrape.pc = "request"
    /\ scrape.urls[scrape.i] \in {"good", "flaky"}
    /\ ~AttemptFails(scrape.urls[scrape.i], scrape.attempt)
    /\ \E d \in Delays(scrape.attempt) :
         scrape' = NextUrl([scrape EXCEPT
                               !.delay = d,
                               !.articles = Append(@, scrape.i)])
    /\ UNCHANGED <<storeVars, schedVars, lifeVars, jobsEnv, managerVars,
                   serviceVars>>

\* The request succeeds and _extract_article_content returns None
ExtractionFindsNothing ==
    /\ scrape.pc = "request"
    /\ scrape.urls[scrape.i] = "empty"
    /\ \E d \in Delays(scrape.attempt) :
         scrape' = NoArticleFrom([scrape EXCEPT !.delay = d])
    /\ UNCHANGED <<storeVars, schedVars, lifeVars, jobsEnv, managerVars,
                   serviceVars>>

\* The request succeeds and _extract_article_content raises:
\* _scrape_single_article catches it and returns None
ExtractionRaises ==
    /\ scrape.pc = "request"
    /\ scrape.urls[scrape.i] = "broken"
    /\ \E d \in Delays(scrape.attempt) :
         scrape' = NoArticleFrom([scrape EXCEPT !.delay = d])
    /\ UNCHANGED <<storeVars, schedVars, lifeVars, jobsEnv, managerVars,
                   serviceVars>>

\* One scraper, one scrape_articles call after the other.
ScraperNext ==
    \/ ScrapeArticlesBegins
    \/ ListingFails
    \/ RequestRetries
    \/ RequestGivesUp
    \/ RequestCrashes
    \/ ArticleScraped
    \/ ExtractionFindsNothing
    \/ ExtractionRaises

\* The scheduler with start() and stop() called in any order and scheduler
\* threads that outlive stop(). The job threads the passes start do not run
\* here.
LifecycleNext ==
    \/ AddJob
    \/ RemoveJob
    \/ Start
    \/ Stop
    \/ StopReturns
    \/ ScanBegin
    \/ ScanVisit
    \/ ScanEnd
    \/ ScanFails
    \/ LoopExits
    \/ \E th \in 1 .. MaxStarts : StaleScanBegin(th)
    \/ \E th \in 1 .. MaxStarts : StaleScanVisit(th)
    \/ \E th \in 1 .. MaxStarts : StaleScanEnd(th)
    \/ \E th \in 1 .. MaxStarts : StaleScanFails(th)
    \/ \E th \in 1 .. MaxStarts : StaleExits(th)
    \/ TimePasses

\* The scheduler with its jobs running, and the process restarted.
RestartNext ==
    \/ AddJob
    \/ Start
    \/ ScanBegin
    \/ ScanVisit
    \/ ScanEnd
    \/ ScanFails
    \/ \E job_id \in JobIds : ExecStart(job_id)
    \/ \E job_id \in JobIds : JobSucceeds(job_id)
    \/ \E job_id \in JobIds : ScheduleNextRun(job_id)
    \/ \E job_id \in JobIds : JobFails(job_id)
    \/ \E job_id \in JobIds : ScheduleAfterFailure(job_id)
    \/ OrphanEnds
    \/ Restart
    \/ TimePasses

\* ------------------------------------------------------------------------
\* The threads inside one scraper (scrapers/scraper_manager.py,
\* services/scraping_orchestrator.py)
\* ------------------------------------------------------------------------
\* ScraperManager.scrapers holds one scraper object per source; every way into
\* a scrape uses that object, and no lock is taken on the way.

\* The ways into scraper.scrape_articles:
\*   "job"         the scheduler's job thread of "scrape_<source>"
\*                 (initialize: lambda src=source: self.scrape_single_source(src))
\*   "scrape_all"  a pool thread of ScraperManager.scrape_all_sources
\*   "scrape_one"  the thread of a caller of scrape_single_source
Entrances == {"job", "scrape_all", "scrape_one"}

FetchThreads == Entrances \X Sources

\* The thread is not inside scrape_articles.
\*   pc    "idle", "pause" (in _handle_rate_limiting, before a request),
\*         "get" (session.get was sent, the response is not yet there)
\*   left  requests the call still makes
NoFetch == [pc |-> "idle", left |-> 0]

AdapterInit == fetches = [t \in FetchThreads |-> NoFetch]

\* scraper.scrape_articles(max_articles) begins and will make n requests.
Fetching(n) == [pc |-> "pause", left |-> n]

\* _execute_job runs the job function of "scrape_<source>":
\* scrape_single_source -> ScraperManager.scrape_single_source ->
\* scraper.scrape_articles
JobScrapes(s) ==
    /\ fetches[<<"job", s>>].pc = "idle"
    /\ \E n \in 1 .. MaxUrls :
         fetches' = [fetches EXCEPT ![<<"job", s>>] = Fetching(n)]
    /\ UNCHANGED <<storeVars, schedVars, lifeVars, jobsEnv, managerVars,
                   scraperVars, besideAdapter>>

\* A caller's scrape_single_source(source_name)
ScrapeOneCalled(s) ==
    /\ fetches[<<"scrape_one", s>>].pc = "idle"
    /\ \E n \in 1 .. MaxUrls :
         fetches' = [fetches EXCEPT ![<<"scrape_one", s>>] = Fetching(n)]
    /\ UNCHANGED <<storeVars, schedVars, lifeVars, jobsEnv, managerVars,
                   scraperVars, besideAdapter>>

\* scrape_all_sources: executor.submit(_scrape_source_with_monitoring, ...)
\* for every source of self.scrapers
ScrapeAllCalled ==
    /\ \A s \in Sources : fetches[<<"scrape_all", s>>].pc = "idle"
    /\ \E n \in [Sources -> 1 .. MaxUrls] :
         fetches' = [t \in FetchThreads |->
                       IF t[1] = "scrape_all" THEN Fetching(n[t[2]])
                       ELSE fetches[t]]
    /\ UNCHANGED <<storeVars, schedVars, lifeVars, jobsEnv, managerVars,
                   scraperVars, besideAdapter>>

\* _make_request: the wait is over, self.session.get(url, ...) is sent
RequestSent(t) ==
    /\ fetches[t].pc = "pause"
    /\ fetches' = [fetches EXCEPT ![t].pc = "get"]
    /\ UNCHANGED <<storeVars, schedVars, lifeVars, jobsEnv, managerVars,
                   scraperVars, besideAdapter>>

\* session.get returns or raises; after the last request scrape_articles
\* returns
ResponseReceived(t) ==
    /\ fetches[t].pc = "get"
    /\ fetches' = [fetches EXCEPT ![t] =
                      IF @.left = 1 THEN NoFetch
                      ELSE [pc |-> "pause", left |-> @.left - 1]]
    /\ UNCHANGED <<storeVars, schedVars, lifeVars, jobsEnv, managerVars,
                   scraperVars, besideAdapter>>

\* The scrapers of all sources with the threads that use them.
AdapterNext ==
    \/ \E s \in Sources : JobScrapes(s)
    \/ \E s \in Sources : ScrapeOneCalled(s)
    \/ ScrapeAllCalled
    \/ \E t \in FetchThreads : RequestSent(t)
    \/ \E t \in FetchThreads : ResponseReceived(t)

\* ------------------------------------------------------------------------
\* Analysis of pending articles (services/scraping_orchestrator.py,
\* services/bias_analyzer.py)
\* ------------------------------------------------------------------------

\* How a pending article behaves:
\*   analysis  "ok"      the analysis modules return their scores
\*             "fails"   an analysis module raises inside analyze_article_bias
\*   update    "modified"    update_one modifies the document
\*             "unmodified"  update_one finds nothing to modify (the article
\*                           is gone): modified_count == 0
\*             "raises"      update_one raises (the server does not answer)
PendingKinds ==
    [analysis : {"ok", "fails"}, update : {"modified", "unmodified", "raises"}]

\* The lists get_articles_without_bias_analysis can return.
PendingLists == UNION {[1 .. n -> PendingKinds] : n \in 0 .. MaxPending}

\* No analyze_pending_articles call has been made.
\*   pc  "idle", "analyze" (before analyze_article_bias of article i),
\*       "update" (before update_article_bias_scores of article i),
\*       "returned", "raised"
\*   bias_scores      what analyze_article_bias returned for article i
\*   analyzed_count, error_count  the locals of these names
\*   written          article number -> the bias_scores the store now holds
NoAnalysis ==
    [pc |-> "idle", pending_articles |-> << >>, i |-> 0, bias_scores |-> "",
     analyzed_count |-> 0, error_count |-> 0, written |-> << >>]

AnalysisInit == analysis = NoAnalysis

\* analyze_article_bias: the BiasScore of the modules, or in
\* "except Exception" the neutral BiasScore
AnalyzeArticleBiasResult(kind) ==
    IF kind.analysis = "ok" THEN "scores" ELSE "neutral"

\* update_article_bias_scores: "return result.modified_count > 0", and
\* "except Exception: return False"
UpdateArticleBiasScoresResult(kind) == kind.update = "modified"

\* The for loop of analyze_pending_articles goes on to the next article, or
\* ends and the result dict is returned.
NextPending(an) ==
    IF an.i < Len(an.pending_articles)
    THEN [an EXCEPT !.pc = "analyze", !.i = @ + 1, !.bias_scores = ""]
    ELSE [an EXCEPT !.pc = "returned", !.bias_scores = ""]

\* A failed update ending the loop.
UpdateFailedAndStopped(an) ==
    [an EXCEPT !.pc = "returned", !.bias_scores = "",
               !.error_count = @ + 1]

\* "else: error_count += 1"
UpdateFailed(an) == NextPending([an EXCEPT !.error_count = @ + 1])

\* "if success: analyzed_count += 1"
UpdateSucceeded(an) ==
    NextPending([an EXCEPT
        !.analyzed_count = @ + 1,
        !.written = [k \in DOMAIN @ \cup {an.i} |->
                        IF k = an.i THEN an.bias_scores ELSE @[k]]])

\* analyze_pending_articles(): get_articles_without_bias_analysis returns
\* its list; "if not pending_articles: return {'analyzed': 0, ...}"
AnalyzePendingBegins ==
    /\ analysis.pc \in {"idle", "returned"}
    /\ \E pending \in PendingLists :
         analysis' = IF pending = << >>
                     THEN [NoAnalysis EXCEPT !.pc = "returned"]
                     ELSE [NoAnalysis EXCEPT !.pc = "analyze",
                                             !.pending_articles = pending,
                                             !.i = 1]
    /\ UNCHANGED <<storeVars, schedVars, lifeVars, jobsEnv, managerVars,
                   scraperVars, besideAnalysis>>

\* bias_scores = self.bias_analyzer.analyze_article_bias(article)
AnalyzeArticleBias ==
    /\ analysis.pc = "analyze"
    /\ analysis' = [analysis EXCEPT
          !.pc = "update",
          !.bias_scores =
              AnalyzeArticleBiasResult(analysis.pending_articles[analysis.i])]
    /\ UNCHANGED <<storeVars, schedVars, lifeVars, jobsEnv, managerVars,
                   scraperVars, besideAnalysis>>

\* success = self.storage_service.update_article_bias_scores(...) is True
UpdateBiasScoresSucceeds ==
    /\ analysis.pc = "update"
    /\ UpdateArticleBiasScoresResult(analysis.pending_articles[analysis.i])
    /\ analysis' = UpdateSucceeded(analysis)
    /\ UNCHANGED <<storeVars, schedVars, lifeVars, jobsEnv, managerVars,
                   scraperVars, besideAnalysis>>

\* success = self.storage_service.update_article_bias_scores(...) is False
UpdateBiasScoresFails ==
    /\ analysis.pc = "update"
    /\ ~UpdateArticleBiasScoresResult(analysis.pending_articles[analysis.i])
    /\ analysis' = UpdateFailed(analysis)
    /\ UNCHANGED <<storeVars, schedVars, lifeVars, jobsEnv, managerVars,
                   scraperVars, besideAnalysis>>

\* One analyze_pending_articles call after the other.
AnalysisNext ==
    \/ AnalyzePendingBegins
    \/ AnalyzeArticleBias
    \/ UpdateBiasScoresSucceeds
    \/ UpdateBiasScoresFails

\* ------------------------------------------------------------------------
\* The orchestrator's scrape of all sources
\* (services/scraping_orchestrator.py)
\* ------------------------------------------------------------------------

\* The order of "for source_name, articles in scraping_results.items()".
SourcesInOrder == <<"s1", "s2">>

\* No scrape_all_sources call has been made.
\*   pc  "idle", "process" (in the loop over scraping_results), "returned"
\*   scraping_results  source -> number of articles the manager returned
\*   pos               the place of the loop in SourcesInOrder
\*   sources           results['sources']
\*   total_errors      results['total_errors']
\*   alert             whether 'High Scraping Failure Rate' was created
NoRun ==
    [pc |-> "idle", scraping_results |-> [s \in Sources |-> 0], pos |-> 0,
     sources |-> << >>, total_errors |-> 0, alert |-> FALSE]

RunInit == scrape_run = NoRun

\* The entry of results['sources'] for a source without articles.
NothingScraped == [scraped |-> 0, stored |-> 0, duplicates |-> 0, errors |-> 1]

\* The entry of results['sources'] for n articles and their storage_result.
SourceEntry(n, storage_result) ==
    [scraped |-> n, stored |-> storage_result.stored,
     duplicates |-> storage_result.duplicates,
     errors |-> storage_result.errors]

\* results['sources'][source_name] = entry;
\* results['total_errors'] += entry['errors']; the loop goes on
WithEntry(run, source_name, entry) ==
    [run EXCEPT
        !.sources = [s \in DOMAIN @ \cup {source_name} |->
                        IF s = source_name THEN entry ELSE @[s]],
        !.total_errors = @ + entry.errors,
        !.pos = @ + 1]

\* "if results['total_errors'] > len(scraping_results) * 0.5"
HighFailureRate(run) ==
    run.total_errors * 2 > Cardinality(DOMAIN run.scraping_results)

\* scrape_all_sources(): scraper_manager.scrape_all_sources returns a list
\* for every source
ScrapeRunBegins ==
    /\ scrape_run.pc \in {"idle", "returned"}
    /\ \E found \in [Sources -> ArticleCounts] :
         scrape_run' = [NoRun EXCEPT !.pc = "process",
                                     !.scraping_results = found, !.pos = 1]
    /\ UNCHANGED <<storeVars, schedVars, lifeVars, jobsEnv, managerVars,
                   scraperVars, besideRun>>

\* "if articles:" store_articles_batch(articles) and the source's entry
ProcessScraped ==
    /\ scrape_run.pc = "process" /\ scrape_run.pos <= Len(SourcesInOrder)
    /\ LET source_name == SourcesInOrder[scrape_run.pos]
           n == scrape_run.scraping_results[source_name]
       IN  /\ n > 0
           /\ \E d \in 0 .. n :
                scrape_run' =
                    WithEntry(scrape_run, source_name,
                        SourceEntry(n, StoreArticlesBatchResult(
                                         n, d, store_available)))
    /\ UNCHANGED <<storeVars, schedVars, lifeVars, jobsEnv, managerVars,
                   scraperVars, besideRun>>

\* "else:" the entry of a source without articles
ProcessEmpty ==
    /\ scrape_run.pc = "process" /\ scrape_run.pos <= Len(SourcesInOrder)
    /\ LET source_name == SourcesInOrder[scrape_run.pos]
       IN  /\ scrape_run.scraping_results[source_name] = 0
           /\ scrape_run' = WithEntry(scrape_run, source_name, NothingScraped)
    /\ UNCHANGED <<storeVars, schedVars, lifeVars, jobsEnv, managerVars,
                   scraperVars, besideRun>>

\* After the loop: the alert when the failure rate is high; return results
ScrapeRunEnds ==
    /\ scrape_run.pc = "process" /\ scrape_run.pos > Len(SourcesInOrder)
    /\ scrape_run' = [scrape_run EXCEPT !.pc = "returned",
                                        !.alert = HighFailureRate(scrape_run)]
    /\ UNCHANGED <<storeVars, schedVars, lifeVars, jobsEnv, managerVars,
                   scraperVars, besideRun>>

\* One scrape_all_sources call after the other while the store comes and
\* goes.
RunNext ==
    \/ ScrapeRunBegins
    \/ ProcessScraped
    \/ ProcessEmpty
    \/ ScrapeRunEnds
    \/ StoreOutage
    \/ StoreRecovers

\* ------------------------------------------------------------------------
\* Bias analyzer (services/bias_analyzer.py)
\* ------------------------------------------------------------------------
\* Scores are in thousandths: 1000 stands for 1.0.

\* The values the analysis modules return in the model: sentiment and
\* political bias in [-1, 1], emotional language and factual-vs-opinion in
\* [0, 1].
SignedScores == {-1000, -500, 0, 500, 1000}
UnitScores == {0, 500, 1000}

Abs(x) == IF x < 0 THEN -x ELSE x

\* _calculate_overall_bias: the weighted sum of the four bias components
\* (weights 0.2, 0.3, 0.25, 0.25), then max(0.0, min(1.0, overall_bias))
\* (the arguments: sentiment_score, political_bias_score,
\* emotional_language_score, factual_vs_opinion_score)
CalculateOverallBias(sentiment, political, emotional, factual) ==
    LET sentiment_bias == Abs(sentiment)
        political_bias == Abs(political)
        emotional_bias == emotional
        opinion_bias == 1000 - factual
        overall_bias == (sentiment_bias * 20 + political_bias * 30
                         + emotional_bias * 25 + opinion_bias * 25) \div 100
    IN  IF overall_bias < 0 THEN 0
        ELSE IF overall_bias > 1000 THEN 1000 ELSE overall_bias

\* What the four modules return for a text:
\*   "empty"  title and content are empty, full_text is " ": analyze_sentiment
\*            and detect_political_bias return 0.0 ("not text.strip()"),
\*            detect_emotional_intensity returns 0.0 (no tokens),
\*            classify_factual_vs_opinion returns 0.5
\*   "words"  a text with words: any scores
ModuleScores(text) ==
    IF text = "empty"
    THEN {[sentiment_score |-> 0, political_bias_score |-> 0,
           emotional_language_score |-> 0, factual_vs_opinion_score |-> 500]}
    ELSE [sentiment_score : SignedScores, political_bias_score : SignedScores,
          emotional_language_score : UnitScores,
          factual_vs_opinion_score : UnitScores]

\* BiasScore(...) of the try branch of analyze_article_bias
BiasScoreOf(m) ==
    [sentiment_score |-> m.sentiment_score,
     political_bias_score |-> m.political_bias_score,
     emotional_language_score |-> m.emotional_language_score,
     factual_vs_opinion_score |-> m.factual_vs_opinion_score,
     overall_bias_score |->
         CalculateOverallBias(m.sentiment_score, m.political_bias_score,
                              m.emotional_language_score,
                              m.factual_vs_opinion_score)]

\* BiasScore(...) of "except Exception" of analyze_article_bias
NeutralBiasScore ==
    [sentiment_score |-> 0, political_bias_score |-> 0,
     emotional_language_score |-> 0, factual_vs_opinion_score |-> 500,
     overall_bias_score |-> 0]

\* No analyze_article_bias call has been made.
AnalyzerInit ==
    bias_score = [text |-> "none", raised |-> FALSE, score |-> NeutralBiasScore]

\* analyze_article_bias(article): the modules return, the BiasScore is built
AnalyzeArticleBiasReturns ==
    /\ \E text \in {"empty", "words"} :
         \E m \in ModuleScores(text) :
            bias_score' = [text |-> text, raised |-> FALSE,
                           score |-> BiasScoreOf(m)]
    /\ UNCHANGED <<storeVars, schedVars, lifeVars, jobsEnv, managerVars,
                   scraperVars, besideAnalyzer>>

\* analyze_article_bias(article): a module raises on a text with words
AnalyzeArticleBiasCatches ==
    /\ bias_score' = [text |-> "words", raised |-> TRUE,
                      score |-> NeutralBiasScore]
    /\ UNCHANGED <<storeVars, schedVars, lifeVars, jobsEnv, managerVars,
                   scraperVars, besideAnalyzer>>

\* One analyze_article_bias call after the other.
AnalyzerNext ==
    \/ AnalyzeArticleBiasReturns
    \/ AnalyzeArticleBiasCatches

\* ------------------------------------------------------------------------
\* Article comparator (services/article_comparator.py)
\* ------------------------------------------------------------------------

\* The sources and overall bias scores (in thousandths) of the articles that
\* are compared.
ReportSources == {"Sa", "Sb", "Sc"}
OverallScores == {0, 500}

ComparedArticles == [source : ReportSources, overall_bias_score : OverallScores]

ComparedLists ==
    UNION {[1 .. n -> ComparedArticles] : n \in 0 .. MaxArticles}

\* f"{article1.source} vs {article2.source}"
SourcePair(article1, article2) == <<article1.source, "vs", article2.source>>

\* avg_bias = (bias1 + bias2) / 2;
\* abs(bias1 - bias2) / avg_bias * 100 if avg_bias > 0 else 0.0
\* (in whole percent, rounded down)
PercentageDiff(bias1, bias2) ==
    IF bias1 + bias2 > 0
    THEN (Abs(bias1 - bias2) * 200) \div (bias1 + bias2)
    ELSE 0

\* The two for loops of calculate_bias_differences from the pair (i, j) on:
\* bias_differences[source_pair] = percentage_diff
RECURSIVE PairLoop(_, _, _, _)
PairLoop(articles, i, j, bias_differences) ==
    IF i > Len(articles) THEN bias_differences
    ELSE IF j > Len(articles)
         THEN PairLoop(articles, i + 1, i + 2, bias_differences)
         ELSE PairLoop(articles, i, j + 1,
                  SetItem(bias_differences,
                          SourcePair(articles[i], articles[j]),
                          PercentageDiff(articles[i].overall_bias_score,
                                         articles[j].overall_bias_score)))

\* calculate_bias_differences(articles)
CalculateBiasDifferences(articles) ==
    IF Len(articles) < 2 THEN << >> ELSE PairLoop(articles, 1, 2, << >>)

DifferencesInit == differences = [articles |-> << >>, bias_differences |-> << >>]

\* A call of calculate_bias_differences with analyzed articles.
CalculateBiasDifferencesCalled ==
    /\ \E articles \in ComparedLists :
         differences' = [articles |-> articles,
                         bias_differences |->
                             CalculateBiasDifferences(articles)]
    /\ UNCHANGED <<storeVars, schedVars, lifeVars, jobsEnv, managerVars,
                   scraperVars, besideComparator, story, hash_seed>>

DifferencesNext == CalculateBiasDifferencesCalled

\* The titles and publication dates (day numbers) of the articles of a story.
Titles == {"t1", "t2"}
PublicationDates == {1, 2}

StoryArticles == [title : Titles, publication_date : PublicationDates]

\* generate_comparison_report needs at least 2 articles.
StoryLists == UNION {[1 .. n -> StoryArticles] : n \in 2 .. MaxArticles}

\* The seeds a Python process can draw for the hashing of str (hash
\* randomization: a new random seed at every process start).
HashSeeds == {0, 1}

\* The code of a title's characters.
TitleCode(title) == IF title = "t1" THEN 1 ELSE 2

\* hash(combined_titles): the str hash of the process, keyed by its seed; a
\* signed integer. The titles stand for the joined string.
RECURSIVE HashLoop(_, _)
HashLoop(h, titles) ==
    IF titles = << >> THEN h
    ELSE HashLoop((h * 31 + TitleCode(Head(titles))) % 65536, Tail(titles))

StrHash(seed, titles) == HashLoop((seed * 7919 + 5381) % 65536, titles) - 32768

\* min(article.publication_date for article in articles)
EarliestDate(articles) ==
    CHOOSE d \in {articles[k].publication_date : k \in DOMAIN articles} :
        \A k \in DOMAIN articles : d <= articles[k].publication_date

\* " ".join(article.title for article in articles)
CombinedTitles(articles) == [k \in DOMAIN articles |-> articles[k].title]

\* _generate_story_id(articles): f"{earliest_date:%Y%m%d}_{title_hash:04d}"
\* with title_hash = abs(hash(combined_titles)) % 10000
GenerateStoryId(articles, seed) ==
    <<EarliestDate(articles),
      Abs(StrHash(seed, CombinedTitles(articles))) % 10000>>

StoryInit ==
    /\ story = [articles |-> << >>, story_id |-> << >>]
    /\ hash_seed \in HashSeeds

\* A call of _generate_story_id (from generate_comparison_report).
GenerateStoryIdCalled ==
    /\ \E articles \in StoryLists :
         story' = [articles |-> articles,
                   story_id |-> GenerateStoryId(articles, hash_seed)]
    /\ UNCHANGED <<storeVars, schedVars, lifeVars, jobsEnv, managerVars,
                   scraperVars, besideComparator, differences, hash_seed>>

\* The process is restarted: the interpreter draws a new hash seed; the
\* story id of the last report is kept by whoever received it.
ProcessRestarts ==
    /\ \E seed \in HashSeeds : hash_seed' = seed
    /\ UNCHANGED <<storeVars, schedVars, lifeVars, jobsEnv, managerVars,
                   scraperVars, besideComparator, differences, story>>

StoryNext ==
    \/ GenerateStoryIdCalled
    \/ ProcessRestarts

\* ------------------------------------------------------------------------
\* The run counters of one job (services/scheduler_service.py, _execute_job)
\* ------------------------------------------------------------------------
\* The job threads of one job, statement by statement. "x += 1" on a field
\* of the shared job object is a read followed by a write; no lock is held.

Runners == 1 .. MaxRunners

\* A job thread that is not running.
\*   pc  "idle", "start" (started, before "job.total_runs += 1"),
\*       "total_read" (total_runs was read), "function" (job.function() is
\*       running), "returned" / "raised" (before the "+= 1" of the outcome),
\*       "successful_read" / "failed_read" (the counter was read)
\*   read  the value the thread read
NoRunner == [pc |-> "idle", read |-> 0]

CountersInit ==
    /\ job_counters = [total_runs |-> 0, successful_runs |-> 0,
                       failed_runs |-> 0]
    /\ runners = [t \in Runners |-> NoRunner]
    /\ ndispatched = 0

\* _scheduler_loop: the job is due; Thread(target=self._execute_job,
\* args=(job,)).start(). Nothing looks at the threads that still run.
Dispatch(t) ==
    /\ runners[t].pc = "idle" /\ ndispatched < MaxDispatches
    /\ runners' = [runners EXCEPT ![t].pc = "start"]
    /\ ndispatched' = ndispatched + 1
    /\ UNCHANGED <<storeVars, schedVars, lifeVars, jobsEnv, managerVars,
                   scraperVars, besideCounters, job_counters>>

\* "job.total_runs += 1": the read
ReadTotalRuns(t) ==
    /\ runners[t].pc = "start"
    /\ runners' = [runners EXCEPT
                      ![t] = [pc |-> "total_read",
                              read |-> job_counters.total_runs]]
    /\ UNCHANGED <<storeVars, schedVars, lifeVars, jobsEnv, managerVars,
                   scraperVars, besideCounters, job_counters, ndispatched>>

\* "job.total_runs += 1": the write; then job.function() runs
WriteTotalRuns(t) ==
    /\ runners[t].pc = "total_read"
    /\ job_counters' = [job_counters EXCEPT
                           !.total_runs = runners[t].read + 1]
    /\ runners' = [runners EXCEPT ![t] = [pc |-> "function", read |-> 0]]
    /\ UNCHANGED <<storeVars, schedVars, lifeVars, jobsEnv, managerVars,
                   scraperVars, besideCounters, ndispatched>>

\* job.function() returns
FunctionReturns(t) ==
    /\ runners[t].pc = "function"
    /\ runners' = [runners EXCEPT ![t].pc = "returned"]
    /\ UNCHANGED <<storeVars, schedVars, lifeVars, jobsEnv, managerVars,
                   scraperVars, besideCounters, job_counters, ndispatched>>

\* job.function() raises
FunctionRaises(t) ==
    /\ runners[t].pc = "function"
    /\ runners' = [runners EXCEPT ![t].pc = "raised"]
    /\ UNCHANGED <<storeVars, schedVars, lifeVars, jobsEnv, managerVars,
                   scraperVars, besideCounters, job_counters, ndispatched>>

\* "job.successful_runs += 1" or "job.failed_runs += 1": the read
ReadOutcomeCounter(t) ==
    /\ runners[t].pc \in {"returned", "raised"}
    /\ runners' = [runners EXCEPT ![t] =
          IF @.pc = "returned"
          THEN [pc |-> "successful_read",
                read |-> job_counters.successful_runs]
          ELSE [pc |-> "failed_read", read |-> job_counters.failed_runs]]
    /\ UNCHANGED <<storeVars, schedVars, lifeVars, jobsEnv, managerVars,
                   scraperVars, besideCounters, job_counters, ndispatched>>

\* "job.successful_runs += 1" or "job.failed_runs += 1": the write; the
\* thread goes on to its end
WriteOutcomeCounter(t) ==
    /\ runners[t].pc \in {"successful_read", "failed_read"}
    /\ job_counters' =
          IF runners[t].pc = "successful_read"
          THEN [job_counters EXCEPT !.successful_runs = runners[t].read + 1]
          ELSE [job_counters EXCEPT !.failed_runs = runners[t].read + 1]
    /\ runners' = [runners EXCEPT ![t] = NoRunner]
    /\ UNCHANGED <<storeVars, schedVars, lifeVars, jobsEnv, managerVars,
                   scraperVars, besideCounters, ndispatched>>

\* The job threads of one job.
CountersNext ==
    \/ \E t \in Runners : Dispatch(t)
    \/ \E t \in Runners : ReadTotalRuns(t)
    \/ \E t \in Runners : WriteTotalRuns(t)
    \/ \E t \in Runners : FunctionReturns(t)
    \/ \E t \in Runners : FunctionRaises(t)
    \/ \E t \in Runners : ReadOutcomeCounter(t)
    \/ \E t \in Runners : WriteOutcomeCounter(t)

\* ------------------------------------------------------------------------
\* scrape_single_source over an adapter that cannot fetch anything
\* ------------------------------------------------------------------------

\* The URL kinds whose request fails.
UnfetchableKinds == {"dead", "odd"}

\* The lists _get_article_urls returns for a source none of whose pages can
\* be fetched.
UnfetchableLists ==
    {urls \in UrlLists :
        urls # << >> /\ \A k \in DOMAIN urls : urls[k] \in UnfetchableKinds}

WatchInit == empty_scrapes = [s \in Sources |-> 0]

\* scrape_single_source(source_name) up to "articles =
\* scraper.scrape_articles(max_articles)", and scrape_articles up to the first
\* request: _get_article_urls returns URLs that cannot be fetched
FailingScrapeBegins(c, s) ==
    /\ \A d \in Scrapers : scrapes[d].pc = "idle"
    /\ scrape.pc \in {"idle", "returned"} /\ nscrapes < MaxScrapes
    /\ scrapes' = [scrapes EXCEPT ![c] =
                      [NoCall EXCEPT !.pc = AfterHealthCheck(scraper_stats[s]),
                                     !.source_name = s,
                                     !.warned = ~scraper_stats[s].is_healthy]]
    /\ nscrapes' = nscrapes + 1
    /\ \E urls \in UnfetchableLists :
         scrape' = [NoScrape EXCEPT !.pc = "request", !.urls = urls, !.i = 1]
    /\ UNCHANGED <<storeVars, schedVars, lifeVars, jobsEnv, scraper_stats,
                   scrape_all, failed_calls, succeeded_since, besideWatch,
                   empty_scrapes>>

\* scrape_single_source(source_name) up to the adapter call, and
\* scrape_articles with _get_article_urls raising
FailingListingBegins(c, s) ==
    /\ \A d \in Scrapers : scrapes[d].pc = "idle"
    /\ scrape.pc \in {"idle", "returned"} /\ nscrapes < MaxScrapes
    /\ scrapes' = [scrapes EXCEPT ![c] =
                      [NoCall EXCEPT !.pc = AfterHealthCheck(scraper_stats[s]),
                                     !.source_name = s,
                                     !.warned = ~scraper_stats[s].is_healthy]]
    /\ nscrapes' = nscrapes + 1
    /\ scrape' = OnListingError(NoScrape)
    /\ UNCHANGED <<storeVars, schedVars, lifeVars, jobsEnv, scraper_stats,
                   scrape_all, failed_calls, succeeded_since, besideWatch,
                   empty_scrapes>>

\* What scrape_single_source records when the adapter call is over:
\* _update_scraper_stats(success=True) when scrape_articles returned its
\* list, _update_scraper_stats(success=False) in "except Exception".
StatsAfterAdapter(stats, sc) ==
    IF sc.pc = "returned" THEN UpdateOnSuccess(stats)
    ELSE UpdateOnFailure(stats, stats.total_errors)

\* scrape_articles is over and scrape_single_source goes on: the statistics
\* are updated and the list (or [] after an exception) is returned
AdapterCallEnds(c) ==
    /\ scrapes[c].pc = "adapter"
    /\ scrape.pc \in {"returned", "raised"}
    /\ LET s == scrapes[c].source_name
       IN  /\ scraper_stats' =
                  [scraper_stats EXCEPT ![s] = StatsAfterAdapter(@, scrape)]
           /\ succeeded_since' =
                  [succeeded_since EXCEPT
                      ![s] = IF scrape.pc = "returned" THEN TRUE ELSE @]
           /\ failed_calls' =
                  [failed_calls EXCEPT
                      ![s] = IF scrape.pc = "returned" THEN @ ELSE @ + 1]
           /\ empty_scrapes' =
                  [empty_scrapes EXCEPT
                      ![s] = IF scrape.articles = << >> THEN @ + 1 ELSE 0]
    /\ scrapes' = [scrapes EXCEPT
                      ![c].pc = "idle",
                      ![c].returned = IF scrape.pc = "returned"
                                      THEN "articles" ELSE "[]"]
    /\ UNCHANGED <<storeVars, schedVars, lifeVars, jobsEnv, scrape_all,
                   nscrapes, scraperVars, besideWatch>>

\* One manager thread at a time scraping sources whose requests all fail.
FailingSourceNext ==
    \/ \E c \in Scrapers, s \in Sources : FailingScrapeBegins(c, s)
    \/ \E c \in Scrapers, s \in Sources : FailingListingBegins(c, s)
    \/ RequestRetries
    \/ RequestGivesUp
    \/ RequestCrashes
    \/ \E c \in Scrapers : AdapterCallEnds(c)

\* ------------------------------------------------------------------------
\* The alerts of the monitoring service
\* ------------------------------------------------------------------------

\* config.get('alert_retention_days', 30)
alert_retention_days == 30

AlertLevels == {"warning", "error"}
AlertSources == {"scraper", "analyzer"}

\* An id no alert was given.
UnknownAlertId == <<"none", "none", 0>>

AlertsInit ==
    /\ alerts = << >>
    /\ alert_clock = 0
    /\ nalerts = 0
    /\ resolve_result = [alert_id |-> UnknownAlertId, serial |-> 0]

\* f"{source}_{level}_{int(datetime.now().timestamp())}": the three parts of
\* the string, the time cut to whole seconds.
AlertId(source, level, clock) == <<source, level, clock>>

\* Alert(alert_id=..., level=..., timestamp=datetime.now(), source=...) with
\* resolved = False; serial tells the Alert objects apart.
NewAlert(level, source, clock, serial) ==
    [alert_id |-> AlertId(source, level, clock), level |-> level,
     source |-> source, timestamp |-> clock, resolved |-> FALSE,
     serial |-> serial]

\* The alerts of the list that pass the test keep, in the order of the list.
RECURSIVE KeptAlerts(_, _)
KeptAlerts(list, cutoff_time) ==
    IF list = << >> THEN << >>
    ELSE IF Head(list).timestamp >= cutoff_time
         THEN <<Head(list)>> \o KeptAlerts(Tail(list), cutoff_time)
         ELSE KeptAlerts(Tail(list), cutoff_time)

\* _cleanup_old_alerts: cutoff_time = now - timedelta(days=retention_days);
\* self.alerts = [alert for alert in self.alerts if alert.timestamp >=
\* cutoff_time]
CleanupOldAlerts(list, clock) ==
    KeptAlerts(list, clock - alert_retention_days * SecondsPerDay)

\* resolve_alert: the place of the first alert of the list with
\* "alert.alert_id == alert_id and not alert.resolved", 0 when there is none.
FirstToResolve(list, alert_id) ==
    LET matches == {i \in DOMAIN list :
                       list[i].alert_id = alert_id /\ ~list[i].resolved}
    IN  IF matches = {} THEN 0
        ELSE CHOOSE i \in matches : \A j \in matches : i <= j

\* create_alert(level, title, message, source): the alert is appended and
\* the old alerts are cleaned up
CreateAlert(level, source) ==
    /\ nalerts < MaxAlerts
    /\ alerts' = CleanupOldAlerts(
                     Append(alerts,
                            NewAlert(level, source, alert_clock, nalerts + 1)),
                     alert_clock)
    /\ nalerts' = nalerts + 1
    /\ UNCHANGED <<storeVars, schedVars, lifeVars, jobsEnv, managerVars,
                   scraperVars, besideAlerts, alert_clock, resolve_result>>

\* resolve_alert(alert_id): the first unresolved alert with the id is
\* resolved (return True), or none is (return False)
ResolveAlert(alert_id) ==
    /\ LET i == FirstToResolve(alerts, alert_id)
       IN  /\ alerts' = IF i = 0 THEN alerts
                        ELSE [alerts EXCEPT ![i].resolved = TRUE]
           /\ resolve_result' =
                  [alert_id |-> alert_id,
                   serial |-> IF i = 0 THEN 0 ELSE alerts[i].serial]
    /\ UNCHANGED <<storeVars, schedVars, lifeVars, jobsEnv, managerVars,
                   scraperVars, besideAlerts, alert_clock, nalerts>>

\* A second goes by.
SecondPasses ==
    /\ alert_clock % (alert_retention_days * SecondsPerDay + 1) < MaxSeconds
    /\ alert_clock' = alert_clock + 1
    /\ UNCHANGED <<storeVars, schedVars, lifeVars, jobsEnv, managerVars,
                   scraperVars, besideAlerts, alerts, nalerts, resolve_result>>

\* More than the retention time goes by.
RetentionPasses ==
    /\ alert_clock <= MaxSeconds
    /\ alert_clock' = alert_clock + alert_retention_days * SecondsPerDay + 1
    /\ UNCHANGED <<storeVars, schedVars, lifeVars, jobsEnv, managerVars,
                   scraperVars, besideAlerts, alerts, nalerts, resolve_result>>

\* The ids resolve_alert is called with: those the monitor gave out, and one
\* it did not.
ResolvableIds ==
    {alerts[i].alert_id : i \in DOMAIN alerts} \cup {UnknownAlertId}

\* The monitor with alerts created and resolved as time goes by.
AlertsNext ==
    \/ \E level \in AlertLevels, source \in AlertSources :
         CreateAlert(level, source)
    \/ \E alert_id \in ResolvableIds : ResolveAlert(alert_id)
    \/ SecondPasses
    \/ RetentionPasses

vars == <<storeVars, schedVars, lifeVars, scrapingVars>>

OtherInit == CountersInit /\ WatchInit /\ AlertsInit

ServiceInit ==
    /\ AdapterInit /\ AnalysisInit /\ RunInit /\ AnalyzerInit
    /\ DifferencesInit /\ StoryInit
    /\ OtherInit

Init ==
    /\ StoreInit /\ SchedulerInit /\ JobsInit /\ ManagerInit /\ ScraperInit
    /\ ServiceInit

Spec == Init /\ [][StoreNext]_vars

SpecBatch == Init /\ [][BatchNext]_vars

SpecScheduler == Init /\ [][SchedulerNext]_vars

SpecLifecycle == Init /\ [][LifecycleNext]_vars

SpecRestart == Init /\ [][RestartNext]_vars

SpecJobs == Init /\ [][JobsNext]_vars

SpecManager == Init /\ [][ManagerNext]_vars

SpecScrapeAll == Init /\ [][ScrapeAllNext]_vars

SpecScraper == Init /\ [][ScraperNext]_vars

\* The thread inside scrape_articles keeps running: every sleep and every
\* request (timeout=45) ends.
SpecScraperFair == SpecScraper /\ WF_vars(ScraperNext)

SpecAdapter == Init /\ [][AdapterNext]_vars

SpecAnalysis == Init /\ [][AnalysisNext]_vars

SpecRun == Init /\ [][RunNext]_vars

SpecAnalyzer == Init /\ [][AnalyzerNext]_vars

SpecDifferences == Init /\ [][DifferencesNext]_vars

SpecStory == Init /\ [][StoryNext]_vars

SpecCounters == Init /\ [][CountersNext]_vars

SpecFailingSource == Init /\ [][FailingSourceNext]_vars

SpecAlerts == Init /\ [][AlertsNext]_vars

\* ------------------------------------------------------------------------
\* Claims about the article store
\* ------------------------------------------------------------------------

\* Two articles collide when they share the url or the content hash.
Collide(a, b) == a.url = b.url \/ a.content_hash = b.content_hash

\* The stored documents that collide with the article a.
Colliders(a) == {d \in articles_collection : Collide(d, a)}

\* The step on which the store_article of caller p returns.
PutReturns(p) ==
    /\ calls[p].pc \in {"find_url", "find_hash", "insert", "dup_key"}
    /\ calls'[p].pc \in {"returned", "classify"}

\* The store_article of caller p has returned and its result is still held.
PutDone(p) == calls[p].pc \in {"returned", "classify"}

\* C1: after any sequence of store_article and store_articles_batch calls,
\* concurrent ones included, no two distinct stored articles have the same url
\* and no two have the same content_hash.
C1_UniqueUrlAndHash ==
    \A a, b \in articles_collection :
        a # b => a.url # b.url /\ a.content_hash # b.content_hash

\* C1 witness: two articles are stored, and a concurrent put of an article
\* colliding with both was stopped by the unique indexes.
C1_Witness ==
    /\ Cardinality(articles_collection) = 2
    /\ \E q \in Procs :
         /\ calls[q].path = "dup_key" /\ PutDone(q)
         /\ Cardinality(Colliders(calls[q].art)) = 2

\* C2: a store_article that returns while a stored article has its url or its
\* content_hash has inserted nothing and returns the id of such a stored
\* article; when the stored article is the same article (same url and hash),
\* it returns that article's id, so putting an article twice gives the same id
\* twice and one stored article.
C2_PutIsIdempotent ==
    [][\A p \in Procs :
         (PutReturns(p) /\ Colliders(calls[p].art) # {}) =>
            /\ articles_collection' = articles_collection
            /\ calls'[p].res \in {d.id : d \in Colliders(calls[p].art)}
            /\ \A d \in articles_collection :
                 (d.url = calls[p].art.url /\ d.content_hash = calls[p].art.content_hash)
                    => calls'[p].res = d.id]_vars

\* C2 witness: the same article was put again; the call returned the id of the
\* one stored article.
C2_Witness ==
    \E p \in Procs :
        /\ calls[p].pc = "returned" /\ calls[p].path = "url"
        /\ Cardinality(articles_collection) = 1
        /\ \E d \in articles_collection :
             /\ d.id = calls[p].res
             /\ d.url = calls[p].art.url
             /\ d.content_hash = calls[p].art.content_hash

\* C3 (as claimed, on the path after a duplicate-key conflict): when the
\* article has the url of a stored article X and the content_hash of another
\* stored article Y, store_article returns X's id.
C3_UrlMatchWinsAfterConflict ==
    [][\A p \in Procs :
         (PutReturns(p) /\ calls[p].pc = "dup_key") =>
            \A X, Y \in articles_collection :
                (X # Y /\ X.url = calls[p].art.url
                       /\ Y.content_hash = calls[p].art.content_hash)
                   => calls'[p].res = X.id]_vars

\* The ids the store_article of caller p inserted.
InsertedBy(p) == IF calls[p].path = "insert" THEN {calls[p].res} ELSE {}

\* Both calls have returned, their articles collide, and both had passed the
\* two existence checks.
BothPassedChecks(p, q) ==
    /\ p # q /\ PutDone(p) /\ PutDone(q)
    /\ Collide(calls[p].art, calls[q].art)
    /\ calls[p].path \in {"insert", "dup_key"}
    /\ calls[q].path \in {"insert", "dup_key"}

\* No stored article other than what p or q inserted collides with their
\* articles: the collision is between these two calls alone.
OnlyTheirs(p, q) ==
    \A d \in Colliders(calls[p].art) \cup Colliders(calls[q].art) :
        d.id \in InsertedBy(p) \cup InsertedBy(q)

C5_BatchCountsOutcomes ==
    \A p \in Procs :
        (calls[p].kind = "batch" /\ calls[p].pc = "returned") =>
            /\ calls[p].stored = calls[p].newly
            /\ calls[p].duplicates = Processed(calls[p]) - calls[p].newly - calls[p].errors

\* C6: a step changes no field of a stored article other than bias_scores, and
\* removes stored articles only as the retention purge does: all those, and
\* only those, scraped before the cutoff of some retention period.
C6_StoredArticlesAreFrozen ==
    [][LET kept == {d \in articles_collection :
                      \E e \in articles_collection' : e.id = d.id}
           removed == articles_collection \ kept
       IN /\ \A d \in kept : \E e \in articles_collection' :
                /\ e.id = d.id /\ e.url = d.url
                /\ e.content_hash = d.content_hash
                /\ e.scraped_at = d.scraped_at /\ e.topics = d.topics
          /\ removed # {} =>
                \E r \in RetentionChoices :
                    removed = {d \in articles_collection :
                                 d.scraped_at < now - r * SecondsPerDay}]_vars

\* C6 witness: an article was purged, and a stored article carries the bias
\* scores the analyzer wrote back.
C6_Witness ==
    /\ Cardinality(articles_collection) < next_oid - 1
    /\ \E d \in articles_collection : d.bias_scores # NoBias

\* ------------------------------------------------------------------------
\* Claims about the scheduler
\* ------------------------------------------------------------------------

\* The step on which the function of a job thread of j raises and the thread
\* writes the failure fields.
FailureRecorded(j) == execs'[j].failed = execs[j].failed + 1

\* The step on which a job thread of j schedules the run after a failure.
FailureScheduled(j) == nops' = nops /\ execs'[j].failed = execs[j].failed - 1

\* The step on which the function of a job thread of j returns and the thread
\* writes the success fields.
SuccessRecorded(j) == execs'[j].succeeded = execs[j].succeeded + 1

\* The step on which a job thread of j schedules the run after a success.
SuccessScheduled(j) == nops' = nops /\ execs'[j].succeeded = execs[j].succeeded - 1

\* The step on which a job thread of j begins _execute_job.
ExecutionBegins(j) == execs'[j].running = execs[j].running + 1

\* C7 (as claimed): when a job's function raises, failed_runs and retry_count
\* each grow by one and last_error is the message; then, if retry_count is
\* below max_retries, next_run is 5 minutes ahead, otherwise retry_count is 0
\* and next_run is one interval ahead; so a job that has failed on every run
\* never gets more than max_retries - 1 five-minute retries in a row.
C7_FailureRetriesAreBounded ==
    [][\A j \in JobIds :
         /\ FailureRecorded(j) =>
              /\ jobs'[j].failed_runs = jobs[j].failed_runs + 1
              /\ jobs'[j].retry_count = jobs[j].retry_count + 1
              /\ jobs'[j].last_error = ErrorMessage
         /\ FailureScheduled(j) =>
              /\ IF jobs[j].retry_count < jobs[j].max_retries
                 THEN /\ jobs'[j].next_run = now + Minutes(RetryMinutes)
                      /\ jobs'[j].retry_count = jobs[j].retry_count
                 ELSE /\ jobs'[j].next_run = now + Minutes(jobs[j].interval_minutes)
                      /\ jobs'[j].retry_count = 0
              /\ jobs'[j].successful_runs = 0 =>
                     retries'[j] <= jobs'[j].max_retries - 1]_vars

PassEnds == loop.pc = "iter" /\ loop'.pc # "iter"

\* A management call on job j is between its two statements.
MidCall(j) == api.pc # "idle" /\ api.job_id = j

\* C9 (as claimed): every scan pass dispatches every job that is enabled and
\* due at the pass's current_time (and that no management call is changing),
\* whatever the job threads are doing.
C9_EveryDueJobIsDispatched ==
    [][PassEnds =>
         \A j \in DOMAIN jobs :
             (IsDue(jobs[j], loop.current_time) /\ ~MidCall(j))
                => j \in loop.dispatched]_vars

\* The scan step that starts a thread for job j.
Dispatches(j) == j \in loop'.dispatched /\ j \notin loop.dispatched

\* C10 (as claimed): a scan pass that runs beside add_job, remove_job,
\* enable_job, disable_job or update_job_interval never fails, and never
\* dispatches a job it read between the two writes of enable_job (enabled
\* already set, next_run not yet reset).
C10_MutationsAreAtomicToTheScan ==
    [][/\ loop'.pc # "sleep"
       /\ \A j \in JobIds :
            Dispatches(j) =>
                ~(MidCall(j) /\ api.pc = "enable" /\ ~api.was_enabled)]_vars

\* ------------------------------------------------------------------------
\* Claims about the scheduler lifecycle
\* ------------------------------------------------------------------------

\* A scheduler thread that is in a scan pass or waits for its next one.
Active(l) == l.pc \in {"iter", "wait"}

\* The scheduler threads that are active.
ActiveLoops ==
    {th \in DOMAIN stale : Active(stale[th])}
        \cup {th \in {nstarts} : Active(loop)}

\* C11: for any sequence of start() and stop() calls at most one scheduler
\* scan loop is active at any time: a loop that was told to stop does not
\* keep scanning alongside the loop of a later start().
C11_AtMostOneActiveLoop == Cardinality(ActiveLoops) <= 1

\* C12: when a new scheduler instance starts from the saved jobs file, every
\* saved job is there again, with its enabled flag, interval, max_retries,
\* last_run, next_run, run counters and last_error as saved.
C12_JobsSurviveRestart ==
    [][nrestarts' = nrestarts + 1 =>
          /\ DOMAIN jobs' = DOMAIN config_file
          /\ \A j \in DOMAIN config_file : SavedJob(jobs'[j]) = config_file[j]]_vars

\* C13: after stop() has set the stop signal, the scheduler thread it was
\* meant for does not begin another scan pass, and stop() waits for it no
\* longer than the ten seconds of its join.
C13_StoppedLoopBeginsNoPass ==
    [][/\ \A th \in DOMAIN stale \cap DOMAIN stale' :
              stale[th].pc # "iter" => stale'[th].pc # "iter"
       /\ stop_event /\ stop_event' => (loop.pc # "iter" => loop'.pc # "iter")
       /\ api.pc = "join" /\ now' > now => now' <= join_until]_vars

\* ------------------------------------------------------------------------
\* Claims about the orchestrator's jobs
\* ------------------------------------------------------------------------

\* The job function of a thread of job j returns or raises in this step.
FunctionEnds(j) == nops' = nops /\ execs'[j].running = execs[j].running - 1

\* The function that ended used the store: analyze_pending_articles always
\* asks for the pending articles, scrape_single_source stores what it scraped.
UsedStore(r) == r.function = "analyze_pending_articles" \/ r.scraped > 0

\* C14: when the store is unavailable during a scheduled scraping or analysis
\* job, the scheduler records that run as a failure: failed_runs and
\* retry_count are incremented, last_error is set, and the thread goes on to
\* schedule the retry.
C14_StoreOutageIsAFailedRun ==
    [][\A j \in JobIds :
          FunctionEnds(j) /\ ~store_available /\ UsedStore(job_result') =>
              /\ jobs'[j].failed_runs = jobs[j].failed_runs + 1
              /\ jobs'[j].retry_count = jobs[j].retry_count + 1
              /\ jobs'[j].last_error # NoError
              /\ execs'[j].failed = execs[j].failed + 1]_vars

\* ------------------------------------------------------------------------
\* Claims about the scraper manager
\* ------------------------------------------------------------------------

\* A scrape of the source s ends successfully in this step: a
\* scrape_single_source call returns its articles, or scrape_all_sources
\* collects the result of the source's future.
SucceedsFor(s) ==
    \/ \E c \in Scrapers :
          /\ scrapes[c].pc = "adapter" /\ scrapes[c].source_name = s
          /\ scrapes'[c].pc = "idle"
    \/ scrape_all.futures[s] = "returned" /\ scrape_all'.futures[s] = "collected"

\* C15: after any successful scrape of a source, the source's is_healthy is
\* true and its total_errors is 0, whatever failures were recorded before.
C15_SuccessResetsErrors ==
    [][\A s \in Sources :
          SucceedsFor(s) =>
              /\ scraper_stats'[s].is_healthy
              /\ scraper_stats'[s].total_errors = 0]_vars

\* A scrape_single_source call for some source is made in this step by the
\* thread c.
CalledBy(c) == nscrapes' = nscrapes + 1 /\ scrapes'[c] # scrapes[c]

\* A scrape_all_sources call is made in this step.
AllCalled == nscrapes' = nscrapes + 1 /\ scrape_all' # scrape_all

\* C16: is_healthy never gates scraping: every scrape_single_source and
\* scrape_all_sources call invokes the adapter, also of a source marked
\* unhealthy, and a successful scrape leaves the source healthy.
C16_HealthNeverGates ==
    [][/\ \A c \in Scrapers : CalledBy(c) => scrapes'[c].pc = "adapter"
       /\ AllCalled => \A s \in Sources : scrape_all'.futures[s] = "running"
       /\ \A s \in Sources :
             SucceedsFor(s) => scraper_stats'[s].is_healthy]_vars

\* A call that logged the warning about its unhealthy source has returned
\* the adapter's articles, and the source, with three or more errors counted,
\* is healthy.
C16_Witness ==
    \E c \in Scrapers :
        /\ scrapes[c].pc = "idle" /\ scrapes[c].warned
        /\ scrapes[c].returned = "articles"
        /\ scraper_stats[scrapes[c].source_name].is_healthy
        /\ scraper_stats[scrapes[c].source_name].total_errors >= UnhealthyErrors

\* A failure update of the source s is between its read and its write.
UpdateInProgress(s) ==
    \/ \E c \in Scrapers : scrapes[c].pc = "failed" /\ scrapes[c].source_name = s
    \/ scrape_all.pc = "failed" /\ scrape_all.source_name = s

\* C17: no update of a source's health record is lost: after k failed calls
\* and no successful call since the last reset, total_errors = k.
C17_NoFailureIsLost ==
    \A s \in Sources :
        ~UpdateInProgress(s) /\ ~succeeded_since[s] =>
            scraper_stats[s].total_errors = failed_calls[s]

Extractable(urls) ==
    LET idx == {i \in 1 .. Len(urls) : urls[i] \in {"good", "flaky"}}
    IN  [n \in 1 .. Cardinality(idx) |->
            CHOOSE i \in idx : Cardinality({j \in idx : j <= i}) = n]

\* C19: scrape_articles never raises: when listing the URLs fails, or
\* fetching or extracting any single URL fails, it returns normally with
\* exactly the articles that were extracted from the other URLs.
C19_ScrapeNeverRaises ==
    /\ scrape.pc # "raised"
    /\ scrape.pc = "returned" => scrape.articles = Extractable(scrape.urls)

\* A call has returned the article of one URL although another URL of its
\* list failed.
C19_Witness ==
    /\ scrape.pc = "returned"
    /\ scrape.articles # << >>
    /\ \E i \in 1 .. Len(scrape.urls) :
          scrape.urls[i] \in {"dead", "odd", "broken"}

\* The request for the current URL takes a step.
RequestStep == scrape.pc = "request" /\ scrape' # scrape

\* The request for the current URL ends in this step.
RequestEnds ==
    /\ RequestStep
    /\ scrape'.pc # "request" \/ scrape'.i # scrape.i

\* C20: a request to a URL that fails on every attempt is retried at most
\* max_retries times, each retry after a wait of at most max_delay; it then
\* ends without raising and without an article, and every request ends.
C20_RetriesAreBounded ==
    /\ [](scrape.attempt <= max_retries)
    /\ [][RequestStep /\ scrape.attempt > 0 =>
             scrape'.delay <= max_delay]_vars
    /\ [][RequestEnds /\ scrape.urls[scrape.i] = "dead" =>
             /\ scrape.attempt = max_retries
             /\ scrape'.pc # "raised"
             /\ scrape'.articles = scrape.articles
             /\ scrape'.failed_scrapes = scrape.failed_scrapes + 1]_vars
    /\ \A i \in 1 .. MaxUrls :
          (scrape.pc = "request" /\ scrape.i = i)
              ~> ~(scrape.pc = "request" /\ scrape.i = i)

\* A call has returned without an article for its one URL, every request to
\* which failed; the last retry waited max_delay.
C20_Witness ==
    /\ scrape.pc = "returned"
    /\ scrape.urls = <<"dead">>
    /\ scrape.articles = << >>
    /\ scrape.failed_scrapes = 1
    /\ scrape.delay = max_delay

\* ------------------------------------------------------------------------
\* Claims about the services around the scrapers
\* ------------------------------------------------------------------------

\* The requests of the scraper of source s that are in flight.
InFlight(s) == {t \in FetchThreads : t[2] = s /\ fetches[t].pc = "get"}

\* C21: the requests of one scraper are strictly sequential: at no time are
\* two HTTP requests of the same scraper in flight, whichever scheduled
\* jobs, scrape_all and scrape_one calls are running.
C21_OneRequestPerAdapter == \A s \in Sources : Cardinality(InFlight(s)) <= 1

\* The pending articles of the call whose update succeeds, and those whose
\* analysis or update fails.
Updated(pending) ==
    {k \in 1 .. Len(pending) : pending[k].update = "modified"}

FailedSomewhere(pending) ==
    {k \in 1 .. Len(pending) :
        pending[k].analysis = "fails" \/ pending[k].update # "modified"}

\* C22 as stated: analyze_pending never propagates a failure, the remaining
\* articles are still analyzed and written back, and every article whose
\* analysis or write-back failed is counted as one error.
C22_EveryFailureCounted ==
    /\ analysis.pc # "raised"
    /\ analysis.pc = "returned" =>
         /\ DOMAIN analysis.written = Updated(analysis.pending_articles)
         /\ analysis.error_count =
               Cardinality(FailedSomewhere(analysis.pending_articles))

\* C22, amended: analyze_pending never propagates a failure; every article of
\* the batch is analyzed and its write-back attempted; a failed write-back
\* is counted as one error for that article only; a failure inside the
\* analysis is not counted: the neutral score is written back and the
\* article counts as analyzed.
C22_FailuresStayPerArticle ==
    /\ analysis.pc # "raised"
    /\ analysis.pc = "returned" =>
         LET pending == analysis.pending_articles
         IN  /\ DOMAIN analysis.written = Updated(pending)
             /\ \A k \in Updated(pending) :
                   analysis.written[k] = AnalyzeArticleBiasResult(pending[k])
             /\ analysis.analyzed_count = Cardinality(Updated(pending))
             /\ analysis.error_count =
                   Len(pending) - Cardinality(Updated(pending))

\* A call has returned after the write-back of its first article failed and
\* the analysis of its second article failed: the second article holds the
\* neutral score, one error is counted.
C22_Witness ==
    /\ analysis.pc = "returned"
    /\ Len(analysis.pending_articles) = 2
    /\ analysis.pending_articles[1].update = "raises"
    /\ analysis.pending_articles[2].analysis = "fails"
    /\ analysis.written = (2 :> "neutral")
    /\ analysis.error_count = 1

\* The sources that failed in the run: they yielded no articles, or none of
\* their articles could be stored.
FailedSources(run) ==
    {s \in DOMAIN run.sources :
        \/ run.sources[s].scraped = 0
        \/ run.sources[s].errors = run.sources[s].scraped}

\* C23: scrape_all_sources emits the error alert exactly when the number of
\* sources that failed in the run exceeds half of the number of sources.
C23_AlertIffMostSourcesFailed ==
    scrape_run.pc = "returned" =>
        (scrape_run.alert <=>
            Cardinality(FailedSources(scrape_run)) * 2
                > Cardinality(DOMAIN scrape_run.scraping_results))

\* C24: analyzing empty text yields sentiment 0, political 0, emotional 0,
\* factual_vs_opinion 0.5 and overall_bias_score 0.
C24_EmptyTextIsNeutral ==
    bias_score.text = "empty" =>
        /\ bias_score.score.sentiment_score = 0
        /\ bias_score.score.political_bias_score = 0
        /\ bias_score.score.emotional_language_score = 0
        /\ bias_score.score.factual_vs_opinion_score = 500
        /\ bias_score.score.overall_bias_score = 0

\* The unordered pairs of n articles, as pairs of their places.
ArticlePairs(n) == {p \in (1 .. n) \X (1 .. n) : p[1] < p[2]}

\* C25: for n >= 2 related articles bias_differences has one entry for each
\* of the n(n-1)/2 unordered pairs of articles, keyed "sourceA vs sourceB",
\* whose value is the percentage difference of that pair's overall scores
\* (0 when their average is 0).
C25_OneEntryPerPair ==
    LET articles == differences.articles
        n == Len(articles)
    IN  n >= 2 =>
          /\ Cardinality(DOMAIN differences.bias_differences)
                = (n * (n - 1)) \div 2
          /\ \A p \in ArticlePairs(n) :
                LET source_pair == SourcePair(articles[p[1]], articles[p[2]])
                IN  /\ source_pair \in DOMAIN differences.bias_differences
                    /\ differences.bias_differences[source_pair]
                         = PercentageDiff(articles[p[1]].overall_bias_score,
                                          articles[p[2]].overall_bias_score)

\* C26: the story_id is a deterministic function of the article set: the
\* same titles with the same earliest publication date yield the same
\* story_id in every call, also after a process restart.
C26_StoryIdIsDeterministic ==
    [][(/\ story.articles # << >>
        /\ CombinedTitles(story'.articles) = CombinedTitles(story.articles)
        /\ EarliestDate(story'.articles) = EarliestDate(story.articles))
       => story'.story_id = story.story_id]_vars

\* ------------------------------------------------------------------------
\* Claims about overlapping job executions
\* ------------------------------------------------------------------------

\* C27: a job is never executing in two threads at once: while one
\* execution of a job is in progress, later passes of the scan loop do not
\* dispatch that job again.
C27_OneExecutionPerJob == \A job_id \in JobIds : Threads(execs[job_id]) <= 1

\* C28: whenever no execution of the job is in progress,
\* total_runs == successful_runs + failed_runs.
C28_RunsAddUp ==
    (\A t \in Runners : runners[t].pc = "idle") =>
        job_counters.total_runs
            = job_counters.successful_runs + job_counters.failed_runs
\* ------------------------------------------------------------------------
\* Claims about the health record of a failing source
\* ------------------------------------------------------------------------

\* C29: a source whose adapter fails on every scrape has one failure in its
\* health record for each such call, and is unhealthy once three scrapes in
\* a row have failed.
C29_FailingSourceTurnsUnhealthy ==
    \A s \in Sources :
        /\ scraper_stats[s].total_errors = empty_scrapes[s]
        /\ empty_scrapes[s] >= UnhealthyErrors => ~scraper_stats[s].is_healthy


\* ------------------------------------------------------------------------
\* Claims about the alerts of the monitor
\* ------------------------------------------------------------------------

\* C30: no two alerts the monitor holds have the same id, so that the alert
\* resolve_alert would resolve for the id of an unresolved alert is that
\* alert.
C30_AlertIdsAreUnique ==
    \A i, j \in DOMAIN alerts :
        /\ alerts[i].alert_id = alerts[j].alert_id => i = j
        /\ ~alerts[i].resolved
              => FirstToResolve(alerts, alerts[i].alert_id) = i


====
